---- MODULE Spec2Model ----
(***************************************************************************)
(* Model of the ai-yfinance-realtime analytics helpers and dashboard.      *)
(*                                                                         *)
(* A pandas Series is modelled as a record [start, values]: the values in  *)
(* order and the label of the first one; labels are consecutive integers   *)
(* (a RangeIndex, or consecutive trading days).  Numbers are exact: a      *)
(* normalized value is the fraction num/den, a correlation coefficient is  *)
(* num/sqrt(den2), and NaN is a flag.                                      *)
(***************************************************************************)
EXTENDS Integers, Sequences, FiniteSets, TLC

\* ------------------------------------------------------------------ bounds
MaxPrice == 3
MaxTargetLen == 3
MaxCompLen == 4
MaxWindow == 3
MaxSymbols == 2
MaxExp == 12
MaxReturn == 1
MaxReturnsLen == 4
MaxLevelBars == 2
MaxExtraBars == 2
MaxAdjust == 10
MaxNegR2 == 120
MaxSeriesLen == 3
MaxOperand == 2
MaxRuns == 3

VARIABLES
  fsp_pc,             \* find_similar_patterns: "idle", "called", "returned"
  target_series,      \* its first argument
  comparison_series,  \* its second argument
  window,             \* its third argument
  similarities,       \* the list it returns
  normalize_calls,    \* number of normalize_data calls it made
  pc,                 \* main(): the position of the dashboard run
  api_key,            \* whether os.getenv('OPENAI_API_KEY') is set and non-empty
  config,             \* the dictionary render_sidebar returns
  processed_data,     \* symbol -> processed data, as load_market_data returns
  trace,              \* engine calls and streamlit output of the run, in order
  tabs_done,          \* the AI tabs whose `with` block ran to its end
  vs_pc,              \* validate_symbols: "idle", "called", "returned"
  symbols,            \* its argument
  valid_symbols,      \* the list it returns
  fc_pc,              \* format_currency: "idle", "called", "returned"
  fc_value,           \* its argument
  fc_result,          \* the string it returns, in parts
  dp_pc,              \* process_realtime_data: "idle", "called", "returned"
  ti_pc,              \* _calculate_technical_indicators: the same
  macd_min_bars,      \* the shortest history for which "macd" is emitted
  raw_data,           \* the argument of process_realtime_data
  dp_result,          \* what process_realtime_data did
  ti_history,         \* the argument of _calculate_technical_indicators
  ti_result,          \* what _calculate_technical_indicators did
  call_fn,            \* a single call of one more function: its name,
  call_pc,            \* "idle", "called", "returned" or "raised",
  call_args,          \* its arguments, and the objects they refer to,
  call_ret            \* and what it returned

patternVars == <<fsp_pc, target_series, comparison_series, window, similarities,
                 normalize_calls>>
dashVars == <<pc, api_key, config, processed_data, trace, tabs_done>>
symbolVars == <<vs_pc, symbols, valid_symbols>>
currencyVars == <<fc_pc, fc_value, fc_result>>
processorVars == <<dp_pc, ti_pc, macd_min_bars, raw_data, dp_result, ti_history,
                   ti_result>>
callVars == <<call_fn, call_pc, call_args, call_ret>>
vars == <<patternVars, dashVars, symbolVars, currencyVars, processorVars, callVars>>

\* ------------------------------------------------- idle components
\* Each specification below runs one component; the others stay idle.
NoConfig == [symbols |-> <<>>, enable_predictions |-> FALSE,
             enable_signals |-> FALSE, enable_sentiment |-> FALSE,
             enable_patterns |-> FALSE]

PatternsIdle ==
  /\ fsp_pc = "idle"
  /\ target_series = [start |-> 0, values |-> <<>>]
  /\ comparison_series = [start |-> 0, values |-> <<>>]
  /\ window = 1
  /\ similarities = <<>>
  /\ normalize_calls = 0

DashIdle ==
  /\ pc = "idle"
  /\ api_key = FALSE
  /\ config = NoConfig
  /\ processed_data = <<>>
  /\ trace = <<>>
  /\ tabs_done = {}

SymbolsIdle ==
  /\ vs_pc = "idle"
  /\ symbols = <<>>
  /\ valid_symbols = <<>>

CurrencyIdle ==
  /\ fc_pc = "idle"
  /\ fc_value = [neg |-> FALSE, mant |-> 0, exp |-> 0]
  /\ fc_result = [neg |-> FALSE, hundredths |-> 0, suffix |-> ""]

ProcessorIdle ==
  /\ dp_pc = "idle"
  /\ ti_pc = "idle"
  /\ macd_min_bars = 1
  /\ raw_data = <<>>
  /\ dp_result = [raised |-> FALSE, value |-> <<>>]
  /\ ti_history = 0
  /\ ti_result = [raised |-> FALSE, value |-> {}]

CallIdle ==
  /\ call_fn = "-"
  /\ call_pc = "idle"
  /\ call_args = <<>>
  /\ call_ret = <<>>

PatternsOthersIdle ==
  DashIdle /\ SymbolsIdle /\ CurrencyIdle /\ ProcessorIdle /\ CallIdle
DashOthersIdle ==
  PatternsIdle /\ SymbolsIdle /\ CurrencyIdle /\ ProcessorIdle /\ CallIdle
SymbolsOthersIdle ==
  PatternsIdle /\ DashIdle /\ CurrencyIdle /\ ProcessorIdle /\ CallIdle
CurrencyOthersIdle ==
  PatternsIdle /\ DashIdle /\ SymbolsIdle /\ ProcessorIdle /\ CallIdle
ProcessorOthersIdle ==
  PatternsIdle /\ DashIdle /\ SymbolsIdle /\ CurrencyIdle /\ CallIdle
CallOthersIdle ==
  PatternsIdle /\ DashIdle /\ SymbolsIdle /\ CurrencyIdle /\ ProcessorIdle

PatternsFrame ==
  UNCHANGED <<dashVars, symbolVars, currencyVars, processorVars, callVars>>
DashFrame ==
  UNCHANGED <<patternVars, symbolVars, currencyVars, processorVars, callVars>>
SymbolsFrame ==
  UNCHANGED <<patternVars, dashVars, currencyVars, processorVars, callVars>>
CurrencyFrame ==
  UNCHANGED <<patternVars, dashVars, symbolVars, processorVars, callVars>>
ProcessorFrame ==
  UNCHANGED <<patternVars, dashVars, symbolVars, currencyVars, callVars>>
CallFrame ==
  UNCHANGED <<patternVars, dashVars, symbolVars, currencyVars, processorVars>>

\* ------------------------------------------------------------- sequences
RECURSIVE SeqSum(_)
SeqSum(s) == IF s = <<>> THEN 0 ELSE Head(s) + SeqSum(Tail(s))

RECURSIVE SeqMin(_)
SeqMin(s) == IF Len(s) = 1 THEN s[1]
             ELSE LET m == SeqMin(Tail(s)) IN IF s[1] < m THEN s[1] ELSE m

RECURSIVE SeqMax(_)
SeqMax(s) == IF Len(s) = 1 THEN s[1]
             ELSE LET m == SeqMax(Tail(s)) IN IF s[1] > m THEN s[1] ELSE m

SeqsUpTo(S, n) == UNION {[1..k -> S] : k \in 0..n}

\* The element of a singleton set.  A value bound through a singleton set is
\* computed once, where a LET definition is expanded at every use.
Only(S) == CHOOSE x \in S : TRUE

\* ---------------------------------------------------------------- Series
Prices == 1..MaxPrice

Series(start, values) == [start |-> start, values |-> values]

SeriesLen(s) == Len(s.values)

\* Series.tail(n): the last n values, with their labels.
SeriesTail(s, n) ==
  LET k == SeriesLen(s) - n
  IN  Series(s.start + k, SubSeq(s.values, k + 1, SeriesLen(s)))

\* Series.iloc[i:i+n], positions counted from 0.
SeriesIloc(s, i, n) == Series(s.start + i, SubSeq(s.values, i + 1, i + n))

\* ------------------------------------------------------- normalize_data
\* (data - data.min()) / (data.max() - data.min()): element i is num[i]/den;
\* with den = 0 every element is 0/0, which is NaN.
normalize_data(data) ==
  Only({[start |-> data.start,
         num   |-> [i \in 1..SeriesLen(data) |-> data.values[i] - lo],
         den   |-> hi - lo] :
        lo \in {SeqMin(data.values)}, hi \in {SeqMax(data.values)}})

IsNaNSeries(n) == n.den = 0

\* ----------------------------------------------------------- Series.corr
NaN == [nan |-> TRUE, num |-> 0, den2 |-> 1]

\* Series.corr(other): the two series are aligned on their common labels
\* (inner join), NaN pairs are dropped, and Pearson's coefficient is taken
\* over what remains; fewer than one pair, or a zero variance, gives NaN.
RECURSIVE SumRange(_, _, _)
SumRange(f, i, n) == IF n = 0 THEN 0 ELSE f[i] + SumRange(f, i + 1, n - 1)

RECURSIVE SumProd(_, _, _, _, _)
SumProd(f, g, i, j, n) ==
  IF n = 0 THEN 0 ELSE f[i] * g[j] + SumProd(f, g, i + 1, j + 1, n - 1)

\* Pearson's coefficient of the m pairs (x[ia+k], y[ib+k]), k = 0..m-1.
Pearson(x, y, ia, ib, m) ==
  Only({IF cxx = 0 \/ cyy = 0 THEN NaN
        ELSE [nan |-> FALSE, num |-> m * sxy - sx * sy, den2 |-> cxx * cyy] :
        <<sx, sy, sxy, cxx, cyy>> \in
          {<<u, v, SumProd(x, y, ia, ib, m),
             m * SumProd(x, x, ia, ia, m) - u * u,
             m * SumProd(y, y, ib, ib, m) - v * v>> :
           u \in {SumRange(x, ia, m)}, v \in {SumRange(y, ib, m)}}})

SeriesCorr(a, b) ==
  LET lo == IF a.start > b.start THEN a.start ELSE b.start
      ea == a.start + Len(a.num) - 1
      eb == b.start + Len(b.num) - 1
      hi == IF ea < eb THEN ea ELSE eb
  IN  IF IsNaNSeries(a) \/ IsNaNSeries(b) \/ hi < lo THEN NaN
      ELSE Pearson(a.num, b.num, lo - a.start + 1, lo - b.start + 1, hi - lo + 1)

\* correlation > 0.7, for a correlation that is not NaN.
ThresholdNum == 7
ThresholdDen == 10
AboveThreshold(c) ==
  /\ c.num > 0
  /\ ThresholdDen * ThresholdDen * c.num * c.num
       > ThresholdNum * ThresholdNum * c.den2

\* a >= b as real numbers num/sqrt(den2).
CorrGE(a, b) ==
  IF a.num >= 0 /\ b.num >= 0 THEN a.num * a.num * b.den2 >= b.num * b.num * a.den2
  ELSE IF a.num >= 0 THEN TRUE
  ELSE IF b.num >= 0 THEN FALSE
  ELSE a.num * a.num * b.den2 <= b.num * b.num * a.den2

\* ------------------------------------------------ find_similar_patterns
\* The filter with the similarity threshold left out.
KeepMatch_NoThreshold(c) == ~c.nan

\* `not pd.isna(correlation) and correlation > 0.7`
KeepMatch(c) == ~c.nan /\ AboveThreshold(c)

\* sorted(similarities, key=correlation, reverse=True): stable, descending.
RECURSIVE InsertDesc(_, _)
InsertDesc(sorted, x) ==
  IF sorted = <<>> THEN <<x>>
  ELSE IF CorrGE(Head(sorted).correlation, x.correlation)
       THEN <<Head(sorted)>> \o InsertDesc(Tail(sorted), x)
       ELSE <<x>> \o sorted

\* The list returned in scan order, without the sort.
SortedDesc_Unsorted(s) == s

RECURSIVE SortedDesc(_)
SortedDesc(s) ==
  IF s = <<>> THEN <<>>
  ELSE InsertDesc(SortedDesc(SubSeq(s, 1, Len(s) - 1)), s[Len(s)])

\* The loop recording the last position of the window as its end.
RECURSIVE ScanFrom_EndInclusive(_, _, _, _)
ScanFrom_EndInclusive(target_norm, comparison, w, i) ==
  IF i > SeriesLen(comparison) - w THEN <<>>
  ELSE Only({IF KeepMatch(correlation)
             THEN <<[start_index |-> i, end_index |-> i + w - 1,
                     correlation |-> correlation]>>
             ELSE <<>> :
             correlation \in
               {SeriesCorr(target_norm,
                           normalize_data(SeriesIloc(comparison, i, w)))}})
       \o ScanFrom_EndInclusive(target_norm, comparison, w, i + 1)

\* The loop over i in range(len(comparison_series) - window + 1), from i on.
RECURSIVE ScanFrom(_, _, _, _)
ScanFrom(target_norm, comparison, w, i) ==
  IF i > SeriesLen(comparison) - w THEN <<>>
  ELSE Only({IF KeepMatch(correlation)
             THEN <<[start_index |-> i, end_index |-> i + w,
                     correlation |-> correlation]>>
             ELSE <<>> :
             correlation \in
               {SeriesCorr(target_norm,
                           normalize_data(SeriesIloc(comparison, i, w)))}})
       \o ScanFrom(target_norm, comparison, w, i + 1)

\* The length guard testing the target series only.
find_similar_patterns_TargetOnly(target, comparison, w) ==
  IF SeriesLen(target) < w
  THEN [result |-> <<>>, normalized |-> 0]
  ELSE Only({[result |-> SortedDesc(ScanFrom(target_norm, comparison, w, 0)),
              normalized |-> 1 + (IF SeriesLen(comparison) < w THEN 0
                                  ELSE SeriesLen(comparison) - w + 1)] :
             target_norm \in {normalize_data(SeriesTail(target, w))}})

find_similar_patterns(target, comparison, w) ==
  IF SeriesLen(target) < w \/ SeriesLen(comparison) < w
  THEN [result |-> <<>>, normalized |-> 0]
  ELSE Only({[result |-> SortedDesc(ScanFrom(target_norm, comparison, w, 0)),
              normalized |-> 1 + (SeriesLen(comparison) - w + 1)] :
             target_norm \in {normalize_data(SeriesTail(target, w))}})

\* ------------------------------------------------------ pattern matcher
InitPatterns ==
  /\ fsp_pc = "called"
  /\ target_series \in {Series(0, v) : v \in SeqsUpTo(Prices, MaxTargetLen)}
  /\ comparison_series \in {Series(0, v) : v \in SeqsUpTo(Prices, MaxCompLen)}
  /\ window \in 1..MaxWindow
  /\ similarities = <<>>
  /\ normalize_calls = 0
  /\ PatternsOthersIdle

FindSimilarPatterns ==
  /\ fsp_pc = "called"
  /\ \E r \in {find_similar_patterns(target_series, comparison_series, window)} :
         /\ similarities' = r.result
         /\ normalize_calls' = r.normalized
  /\ fsp_pc' = "returned"
  /\ UNCHANGED <<target_series, comparison_series, window>>
  /\ PatternsFrame

NextPatterns == FindSimilarPatterns

SpecPatterns == InitPatterns /\ [][NextPatterns]_vars

\* Number of W-length sub-windows of the comparison series.
WindowCount == IF SeriesLen(comparison_series) < window THEN 0
               ELSE SeriesLen(comparison_series) - window + 1

\* A correlation equal to 1.
IsOne(c) == ~c.nan /\ c.num > 0 /\ c.num * c.num = c.den2

\* C1: every match returned by find_similar_patterns has a correlation that
\* is not NaN and is strictly greater than 0.7.
C1_MatchesAboveThreshold ==
  fsp_pc = "returned" =>
    \A k \in 1..Len(similarities) :
      /\ ~similarities[k].correlation.nan
      /\ AboveThreshold(similarities[k].correlation)

\* A call that returned some windows and rejected others.
C1_Witness ==
  /\ fsp_pc = "returned"
  /\ Len(similarities) >= 1
  /\ Len(similarities) < WindowCount

\* C2: the returned list is ordered by non-increasing correlation: each
\* match's correlation is at least that of the match after it.
C2_SortedDescending ==
  fsp_pc = "returned" =>
    \A k \in 1..(Len(similarities) - 1) :
      CorrGE(similarities[k].correlation, similarities[k + 1].correlation)

\* A call whose result the sort reordered: a later window comes first, with a
\* strictly greater correlation.
C2_Witness ==
  /\ fsp_pc = "returned"
  /\ \E k \in 1..(Len(similarities) - 1) :
       /\ similarities[k].start_index > similarities[k + 1].start_index
       /\ ~CorrGE(similarities[k + 1].correlation, similarities[k].correlation)

\* C3: when the target or the comparison series has fewer than W elements
\* the call returns the empty list and normalizes no window.
C3_ShortSeriesEmpty ==
  (/\ fsp_pc = "returned"
   /\ \/ SeriesLen(target_series) < window
      \/ SeriesLen(comparison_series) < window)
  => (similarities = <<>> /\ normalize_calls = 0)

\* A call with a long enough target and a comparison series that is too short.
C3_Witness ==
  /\ fsp_pc = "returned"
  /\ SeriesLen(target_series) >= window
  /\ SeriesLen(comparison_series) < window
  /\ SeriesLen(comparison_series) >= 1

\* C4: whenever the last W values of the target series are identical to a
\* W-length sub-window of the comparison series, that sub-window is returned
\* as a match with correlation 1 and the top match has correlation 1.  Stated
\* for a window that is not constant (a constant window has no correlation)
\* and without requiring the identical window to precede other perfect
\* matches.
C4_IdenticalWindowIsTopMatch ==
  fsp_pc = "returned" =>
    \A i \in 0..(WindowCount - 1) :
      (/\ SeriesLen(target_series) >= window
       /\ SeriesIloc(comparison_series, i, window).values
            = SeriesTail(target_series, window).values
       /\ ~IsNaNSeries(normalize_data(SeriesTail(target_series, window))))
      => /\ similarities # <<>>
         /\ IsOne(similarities[1].correlation)
         /\ \E k \in 1..Len(similarities) :
              /\ similarities[k].start_index = i
              /\ IsOne(similarities[k].correlation)

\* ================================================================ dashboard
\* main.py.  The engines behind it (the LLM, FinancialAnalyzer, DataProcessor)
\* are outside the dashboard: each call returns one of the outcomes its
\* interface allows, chosen nondeterministically.

\* `len(history) >= 100`
MinBars == 100

\* The sidebar's default tickers; the symbol lists are its prefixes.
AllSymbols == <<"AAPL", "GOOGL", "MSFT", "AMZN", "TSLA">>
SymbolLists == {SubSeq(AllSymbols, 1, k) : k \in 0..MaxSymbols}

SeqToSet(q) == {q[i] : i \in DOMAIN q}

\* One symbol's processed data: falsy (None or {}), or a dictionary with or
\* without a 'history' frame of history_len bars.
NoData == [present |-> FALSE, has_history |-> FALSE, history_len |-> 0]
HistoryLens == {0, MinBars - 1, MinBars}
DataKinds ==
  {NoData, [present |-> TRUE, has_history |-> FALSE, history_len |-> 0]}
  \cup {[present |-> TRUE, has_history |-> TRUE, history_len |-> n] :
        n \in HistoryLens}

\* What an analyzer call can do: return a result without or with an 'error'
\* key, or raise.
Outcomes == {"ok", "error", "raise"}

NoSymbol == "-"

Event(ev, op, sym, len, res) ==
  [ev |-> ev, op |-> op, sym |-> sym, len |-> len, res |-> res]

\* ------------------------------------------------- FinancialAIGenerator
\* A generate_* method whose except clause is missing: a failure is raised.
generate_market_analysis_Unguarded(format_fails, llm_fails) ==
  [raised |-> format_fails \/ llm_fails,
   value  |-> IF format_fails \/ llm_fails THEN "none" ELSE "content"]

\* try: format the data, build the prompt, call the LLM, return its content;
\* except Exception: return an error string.
generate_market_analysis(format_fails, llm_fails) ==
  [raised |-> FALSE,
   value  |-> IF format_fails \/ llm_fails THEN "error_string" ELSE "content"]

generate_trading_signals(analyze_fails, llm_fails) ==
  [raised |-> FALSE,
   value  |-> IF analyze_fails \/ llm_fails THEN "error_string" ELSE "content"]

generate_stock_prediction(format_fails, llm_fails) ==
  [raised |-> FALSE,
   value  |-> IF format_fails \/ llm_fails THEN "error_string" ELSE "content"]

\* ------------------------------------------------------------- main.py
\* A try block whose exception is not caught.
TryExcept_Propagates(raised) == [escaped |-> raised, shown |-> FALSE]

\* try: ... except Exception as e: st.error(...)
TryExcept(raised) == [escaped |-> FALSE, shown |-> raised]

\* The result is rendered whatever it carries.
ShowsResult_Always(res) == TRUE

\* `'error' not in result`
ShowsResult(res) == res # "error"

\* The gate without the length test.
MLGate_NoLength(data) == data.has_history

\* `'history' in processed_data[selected_symbol]` and `len(history) >= 100`
MLGate(data) == data.has_history /\ data.history_len >= MinBars

\* A generator call inside try/except, its text shown with st.markdown.
GeneratorBlock(op, sym, r) ==
  LET h == TryExcept(r.raised)
  IN  [events |->
         <<Event("call", op, sym, 0, IF r.raised THEN "raise" ELSE r.value)>>
         \o (IF ~r.raised THEN <<Event("markdown", op, sym, 0, r.value)>>
             ELSE IF h.shown THEN <<Event("error", op, sym, 0, "raise")>>
             ELSE <<>>),
       escaped |-> h.escaped]

\* An analyzer call inside try/except: the result is rendered if it has no
\* 'error' key and shown with st.error otherwise.
AnalyzerBlock(op, render_op, sym, len, outcome) ==
  LET h == TryExcept(outcome = "raise")
  IN  [events |->
         <<Event("call", op, sym, len, outcome)>>
         \o (IF outcome = "raise"
             THEN IF h.shown THEN <<Event("error", op, sym, len, "raise")>>
                  ELSE <<>>
             ELSE IF ShowsResult(outcome)
                  THEN <<Event("render", render_op, sym, len, outcome)>>
                  ELSE <<Event("error", op, sym, len, outcome)>>),
       escaped |-> h.escaped]

NoBlock == [events |-> <<>>, escaped |-> FALSE]

\* Two blocks in sequence: the second runs unless the first let an exception out.
Then(a, b) ==
  IF a.escaped THEN a
  ELSE [events |-> a.events \o b.events, escaped |-> b.escaped]

\* [symbol for symbol, data in processed_data.items() if data]
ValidSymbols(data) == {sym \in DOMAIN data : data[sym].present}

\* [... if data and 'history' in data]
PatternSymbols(data) ==
  {sym \in DOMAIN data : data[sym].present /\ data[sym].has_history}

render_predictions(data, selected, button, format_fails, llm_fails, outcome) ==
  IF selected = NoSymbol THEN NoBlock
  ELSE Then(IF button
            THEN GeneratorBlock("generate_stock_prediction", selected,
                                generate_stock_prediction(format_fails, llm_fails))
            ELSE NoBlock,
            IF MLGate(data[selected])
            THEN AnalyzerBlock("predict_price_movement",
                               "render_ml_prediction_results", selected,
                               data[selected].history_len, outcome)
            ELSE NoBlock)

render_sentiment_analysis(outcome) ==
  AnalyzerBlock("analyze_sentiment_indicators", "render_sentiment_dashboard",
                NoSymbol, 0, outcome)

render_pattern_analysis(data, selected, outcome) ==
  IF selected = NoSymbol THEN NoBlock
  ELSE AnalyzerBlock("analyze_price_patterns", "render_pattern_results",
                     selected, data[selected].history_len, outcome)

Info(op) == [events |-> <<Event("info", op, NoSymbol, 0, "disabled")>>,
             escaped |-> FALSE]

\* A selectbox over a set of options: one of them, or nothing when there is none.
Selectable(options, selected) ==
  IF options = {} THEN selected = NoSymbol ELSE selected \in options

InitDashboard ==
  /\ pc = "main"
  /\ api_key \in BOOLEAN
  /\ config = NoConfig
  /\ processed_data = <<>>
  /\ trace = <<>>
  /\ tabs_done = {}
  /\ DashOthersIdle

\* main() up to render_sidebar(): the user's symbols and toggles.
RenderSidebar ==
  /\ pc = "main"
  /\ \E syms \in SymbolLists, p, g, t, a \in BOOLEAN :
       config' = [symbols |-> syms, enable_predictions |-> p,
                  enable_signals |-> g, enable_sentiment |-> t,
                  enable_patterns |-> a]
  /\ pc' = "check_symbols"
  /\ UNCHANGED <<api_key, processed_data, trace, tabs_done>>
  /\ DashFrame

\* `if not config['symbols']: st.warning(...); return`
CheckSymbols ==
  /\ pc = "check_symbols"
  /\ IF config.symbols = <<>>
     THEN /\ trace' = Append(trace, Event("warning", "main", NoSymbol, 0, "no_symbols"))
          /\ pc' = "done"
     ELSE /\ trace' = trace
          /\ pc' = "load"
  /\ UNCHANGED <<api_key, config, processed_data, tabs_done>>
  /\ DashFrame

\* load_market_data(config): data for every symbol, no data at all, or an
\* exception that main() catches.
LoadMarketData ==
  /\ pc = "load"
  /\ \E raised \in BOOLEAN,
        data \in [SeqToSet(config.symbols) -> DataKinds] \cup {<<>>} :
       IF raised
       THEN /\ processed_data' = processed_data
            /\ trace' = Append(trace, Event("call", "load_market_data", NoSymbol, 0, "raise"))
            /\ pc' = "main_except"
       ELSE /\ processed_data' = data
            /\ trace' = Append(trace, Event("call", "load_market_data", NoSymbol, 0, "ok"))
            /\ pc' = "overview"
  /\ UNCHANGED <<api_key, config, tabs_done>>
  /\ DashFrame

\* render_market_overview, then `if processed_data:` render_stock_metrics,
\* which reads data['current_price'] unguarded and may raise.
RenderOverview ==
  /\ pc = "overview"
  /\ \E metrics_raise \in BOOLEAN :
       IF processed_data = <<>> THEN pc' = "extra_tabs"
       ELSE IF metrics_raise /\ ValidSymbols(processed_data) # {} THEN pc' = "main_except"
       ELSE pc' = "ai_analysis"
  /\ UNCHANGED <<api_key, config, processed_data, trace, tabs_done>>
  /\ DashFrame

\* render_ai_analysis without the API key test.
RenderAIAnalysis_NoKeyCheck ==
  /\ pc = "ai_analysis"
  /\ IF processed_data = <<>>
     THEN /\ trace' = Append(trace, Event("warning", "render_ai_analysis", NoSymbol, 0, "no_data"))
          /\ pc' = "patterns"
     ELSE /\ trace' = Append(trace, Event("tabs", "render_ai_analysis", NoSymbol, 0, "created"))
          /\ pc' = "tab_market"
  /\ UNCHANGED <<api_key, config, processed_data, tabs_done>>
  /\ DashFrame

\* render_ai_analysis up to st.tabs: the two early returns.
RenderAIAnalysis ==
  /\ pc = "ai_analysis"
  /\ IF processed_data = <<>>
     THEN /\ trace' = Append(trace, Event("warning", "render_ai_analysis", NoSymbol, 0, "no_data"))
          /\ pc' = "patterns"
     ELSE IF ~api_key
     THEN /\ trace' = Append(trace, Event("warning", "render_ai_analysis", NoSymbol, 0, "no_api_key"))
          /\ pc' = "patterns"
     ELSE /\ trace' = Append(trace, Event("tabs", "render_ai_analysis", NoSymbol, 0, "created"))
          /\ pc' = "tab_market"
  /\ UNCHANGED <<api_key, config, processed_data, tabs_done>>
  /\ DashFrame

\* One AI tab: its block runs; an exception it lets out goes to main().
RunTab(tab, block, next) ==
  /\ trace' = trace \o block.events
  /\ IF block.escaped
     THEN /\ pc' = "main_except"
          /\ tabs_done' = tabs_done
     ELSE /\ pc' = next
          /\ tabs_done' = tabs_done \cup {tab}
  /\ UNCHANGED <<api_key, config, processed_data>>
  /\ DashFrame

TabMarketAnalysis ==
  /\ pc = "tab_market"
  /\ \E format_fails, llm_fails \in BOOLEAN :
       RunTab(0, GeneratorBlock("generate_market_analysis", NoSymbol,
                                generate_market_analysis(format_fails, llm_fails)),
              "tab_signals")

TabTradingSignals ==
  /\ pc = "tab_signals"
  /\ \E analyze_fails, llm_fails \in BOOLEAN :
       RunTab(1, IF config.enable_signals
                 THEN GeneratorBlock("generate_trading_signals", NoSymbol,
                                     generate_trading_signals(analyze_fails, llm_fails))
                 ELSE Info("generate_trading_signals"),
              "tab_predictions")

TabPredictions ==
  /\ pc = "tab_predictions"
  /\ \E selected \in ValidSymbols(processed_data) \cup {NoSymbol},
        button, format_fails, llm_fails \in BOOLEAN, outcome \in Outcomes :
       /\ Selectable(ValidSymbols(processed_data), selected)
       /\ RunTab(2, IF config.enable_predictions
                    THEN render_predictions(processed_data, selected, button,
                                            format_fails, llm_fails, outcome)
                    ELSE Info("render_predictions"),
                 "tab_sentiment")

\* The sentiment tab without its toggle.
TabSentiment_Ungated ==
  /\ pc = "tab_sentiment"
  /\ \E outcome \in Outcomes :
       RunTab(3, render_sentiment_analysis(outcome), "patterns")

TabSentiment ==
  /\ pc = "tab_sentiment"
  /\ \E outcome \in Outcomes :
       RunTab(3, IF config.enable_sentiment
                 THEN render_sentiment_analysis(outcome)
                 ELSE Info("render_sentiment_analysis"),
              "patterns")

\* `if config['enable_patterns']: render_pattern_analysis(processed_data)`
PatternAnalysis ==
  /\ pc = "patterns"
  /\ \E selected \in PatternSymbols(processed_data) \cup {NoSymbol},
        outcome \in Outcomes :
       /\ Selectable(PatternSymbols(processed_data), selected)
       /\ LET block == IF config.enable_patterns
                       THEN render_pattern_analysis(processed_data, selected, outcome)
                       ELSE NoBlock
          IN  /\ trace' = trace \o block.events
              /\ pc' = IF block.escaped THEN "main_except" ELSE "extra_tabs"
  /\ UNCHANGED <<api_key, config, processed_data, tabs_done>>
  /\ DashFrame

\* The News and Portfolio placeholders.
ExtraTabs ==
  /\ pc = "extra_tabs"
  /\ pc' = "done"
  /\ UNCHANGED <<api_key, config, processed_data, trace, tabs_done>>
  /\ DashFrame

\* main()'s `except Exception as e: st.error(...)`
MainExcept ==
  /\ pc = "main_except"
  /\ trace' = Append(trace, Event("error", "main", NoSymbol, 0, "raise"))
  /\ pc' = "done"
  /\ UNCHANGED <<api_key, config, processed_data, tabs_done>>
  /\ DashFrame

NextDashboard ==
  \/ RenderSidebar
  \/ CheckSymbols
  \/ LoadMarketData
  \/ RenderOverview
  \/ RenderAIAnalysis
  \/ TabMarketAnalysis
  \/ TabTradingSignals
  \/ TabPredictions
  \/ TabSentiment
  \/ PatternAnalysis
  \/ ExtraTabs
  \/ MainExcept

SpecDashboard == InitDashboard /\ [][NextDashboard]_vars

\* render_ai_analysis(processed_data, config) called on its own, with any data
\* and any configuration; pc = "patterns" is its return.
InitAIAnalysis ==
  /\ pc = "ai_analysis"
  /\ api_key \in BOOLEAN
  /\ \E syms \in SymbolLists :
       /\ config \in [symbols : {syms}, enable_predictions : BOOLEAN,
                      enable_signals : BOOLEAN, enable_sentiment : BOOLEAN,
                      enable_patterns : {FALSE}]
       /\ processed_data \in [SeqToSet(syms) -> DataKinds]
  /\ trace = <<>>
  /\ tabs_done = {}
  /\ DashOthersIdle

NextAIAnalysis ==
  \/ RenderAIAnalysis
  \/ TabMarketAnalysis
  \/ TabTradingSignals
  \/ TabPredictions
  \/ TabSentiment

SpecAIAnalysis == InitAIAnalysis /\ [][NextAIAnalysis]_vars

IsCall(e, op) == e.ev = "call" /\ e.op = op

AnalyzerOps == {"predict_price_movement", "analyze_sentiment_indicators",
                "analyze_price_patterns"}

GeneratorOps == {"generate_market_analysis", "generate_trading_signals",
                 "generate_stock_prediction"}

\* C5: the ML predictor is called for a symbol only when that symbol's data
\* has a history of at least 100 bars.
C5_PredictorGated ==
  \A k \in DOMAIN trace :
    IsCall(trace[k], "predict_price_movement") =>
      /\ trace[k].sym \in DOMAIN processed_data
      /\ processed_data[trace[k].sym].has_history
      /\ processed_data[trace[k].sym].history_len >= MinBars
      /\ trace[k].len = processed_data[trace[k].sym].history_len

\* A run that called the predictor on a history of exactly 100 bars while
\* another symbol of the same run has 99.
C5_Witness ==
  /\ pc = "done"
  /\ \E k \in DOMAIN trace :
       IsCall(trace[k], "predict_price_movement") /\ trace[k].len = MinBars
  /\ \E sym \in DOMAIN processed_data :
       processed_data[sym].has_history
       /\ processed_data[sym].history_len = MinBars - 1

\* C6: a render_* function is called only on a result without an 'error' key,
\* and a result with an 'error' key is shown as an error message instead.
C6_ErrorResultsNotRendered ==
  \A k \in DOMAIN trace :
    /\ trace[k].ev = "render" => trace[k].res = "ok"
    /\ (trace[k].ev = "call" /\ trace[k].op \in AnalyzerOps
        /\ trace[k].res = "error")
       => /\ k < Len(trace)
          /\ trace[k + 1] = Event("error", trace[k].op, trace[k].sym,
                                  trace[k].len, "error")

\* A run in which the predictor returned an error result and the sentiment
\* analysis a good one.
C6_Witness ==
  /\ pc = "done"
  /\ \E k \in DOMAIN trace :
       IsCall(trace[k], "predict_price_movement") /\ trace[k].res = "error"
  /\ \E k \in DOMAIN trace :
       trace[k].ev = "render" /\ trace[k].op = "render_sentiment_dashboard"

TabsCreated == \E k \in DOMAIN trace : trace[k].ev = "tabs"

\* C7: a generate_* call never raises and returns a string (the content or an
\* error string), and once the AI tabs exist all four of them are processed,
\* whatever was raised inside one of them.
C7_FailuresIsolated ==
  /\ \A k \in DOMAIN trace :
       (trace[k].ev = "call" /\ trace[k].op \in GeneratorOps)
       => trace[k].res \in {"content", "error_string"}
  /\ (TabsCreated /\ pc \in {"patterns", "extra_tabs", "main_except", "done"})
     => tabs_done = {0, 1, 2, 3}

\* A run in which the market analysis failed inside the generator, the ML
\* predictor raised in the predictions tab, and the run finished normally.
C7_Witness ==
  /\ pc = "done"
  /\ tabs_done = {0, 1, 2, 3}
  /\ \E k \in DOMAIN trace :
       IsCall(trace[k], "generate_market_analysis") /\ trace[k].res = "error_string"
  /\ \E k \in DOMAIN trace :
       IsCall(trace[k], "predict_price_movement") /\ trace[k].res = "raise"
  /\ \E k \in DOMAIN trace :
       IsCall(trace[k], "analyze_sentiment_indicators")
  /\ trace[Len(trace)].op # "main"

\* ------------------------------------------------------- validate_symbols
\* A string is a sequence of one-character strings.
Whitespace == {" ", "\t"}
LowerLetters == {"a"}
UpperLetters == {"A", "B"}
Digits == {"7"}
AlnumChars == LowerLetters \cup UpperLetters \cup Digits

RECURSIVE LStrip(_)
LStrip(s) == IF s # <<>> /\ Head(s) \in Whitespace THEN LStrip(Tail(s)) ELSE s

RECURSIVE RStrip(_)
RStrip(s) == IF s # <<>> /\ s[Len(s)] \in Whitespace
             THEN RStrip(SubSeq(s, 1, Len(s) - 1)) ELSE s

\* str.strip(): leading and trailing whitespace removed, the inside kept.
Strip(s) == RStrip(LStrip(s))

\* str.upper(): lower-case letters mapped to upper case, the rest kept.
UpperChar(c) == IF c = "a" THEN "A" ELSE c
Upper(s) == [i \in DOMAIN s |-> UpperChar(s[i])]

\* str.isalnum(): at least one character and all of them alphanumeric.
IsAlnum(s) == s # <<>> /\ \A i \in DOMAIN s : s[i] \in AlnumChars

\* `c in s`
Contains(s, c) == \E i \in DOMAIN s : s[i] = c

MaxSymbolLen == 6

\* `symbol.strip().upper()`
CleanSymbol(symbol) == Upper(Strip(symbol))

\* The two nested conditions of the loop body, without the upper length bound.
IsValidSymbol_NoUpperBound(clean_symbol) ==
  /\ Len(clean_symbol) >= 1
  /\ IsAlnum(clean_symbol) \/ Contains(clean_symbol, ".") \/ Contains(clean_symbol, "^")

\* The two nested conditions of the loop body.
IsValidSymbol(clean_symbol) ==
  /\ Len(clean_symbol) >= 1 /\ Len(clean_symbol) <= MaxSymbolLen
  /\ IsAlnum(clean_symbol) \/ Contains(clean_symbol, ".") \/ Contains(clean_symbol, "^")

\* The loop: one step per input symbol, appending the clean form if valid.
RECURSIVE validate_symbols(_)
validate_symbols(syms) ==
  IF syms = <<>> THEN <<>>
  ELSE LET clean_symbol == CleanSymbol(Head(syms))
       IN (IF IsValidSymbol(clean_symbol) THEN <<clean_symbol>> ELSE <<>>)
          \o validate_symbols(Tail(syms))

\* The strings the model passes in: a core, padded with spaces on either side.
Repeat(c, n) == [i \in 1..n |-> c]
CoreChars == {"a", "7", ".", "^", "-"}
CoreLens == {1, MaxSymbolLen, MaxSymbolLen + 1}
MixedCores == {<<"a", ".">>, <<"a", "-">>, <<"a", " ", "a">>, <<"^", " ", "a">>,
               <<"\t", "a", "B", "7">>, <<"a", "a", "a", "-", "a", "a", ".">>}
Cores == {<<>>} \cup {Repeat(c, n) : c \in CoreChars, n \in CoreLens} \cup MixedCores
PadLens == {0, 1}
SymbolInputs == {Repeat(" ", l) \o core \o Repeat(" ", r) :
                   l \in PadLens, r \in PadLens, core \in Cores}

InitSymbols ==
  /\ vs_pc = "called"
  /\ symbols \in SeqsUpTo(SymbolInputs, MaxSymbols)
  /\ valid_symbols = <<>>
  /\ SymbolsOthersIdle

ValidateSymbols ==
  /\ vs_pc = "called"
  /\ valid_symbols' = validate_symbols(symbols)
  /\ vs_pc' = "returned"
  /\ UNCHANGED symbols
  /\ SymbolsFrame

NextSymbols == ValidateSymbols

SpecSymbols == InitSymbols /\ [][NextSymbols]_vars

\* The claim's acceptance test on a cleaned form.
C8_Accepted(clean) ==
  /\ Len(clean) \in 1..6
  /\ \/ \A i \in DOMAIN clean : clean[i] \in AlnumChars
     \/ \E i \in DOMAIN clean : clean[i] \in {".", "^"}

\* C8: validate_symbols returns, in input order, exactly the stripped and
\* upper-cased form of each input symbol whose cleaned form has length 1..6 and
\* is alphanumeric or contains '.' or '^'; every returned symbol is non-empty,
\* at most 6 characters long and has no leading or trailing whitespace.
C8_ValidSymbolsContract ==
  vs_pc = "returned" =>
    /\ valid_symbols =
         SelectSeq([i \in DOMAIN symbols |-> Upper(Strip(symbols[i]))], C8_Accepted)
    /\ \A k \in DOMAIN valid_symbols :
         /\ Len(valid_symbols[k]) >= 1
         /\ Len(valid_symbols[k]) <= 6
         /\ valid_symbols[k][1] \notin Whitespace
         /\ valid_symbols[k][Len(valid_symbols[k])] \notin Whitespace

\* A call that drops a seven-character symbol and returns the cleaned form of
\* a padded lower-case one.
C8_Witness ==
  /\ vs_pc = "returned"
  /\ Len(symbols) = 2
  /\ Len(Strip(symbols[1])) = 7
  /\ symbols[2] = <<" ", "a", " ">>
  /\ valid_symbols = << <<"A">> >>

\* -------------------------------------------------------- format_currency
\* A value is (-1)^neg * mant * 10^exp with mant a natural number below 10^5:
\* the decimal numbers of up to five significant digits.  The integers of the
\* model are 32 bits wide, so 10^12 is never written out.
RECURSIVE Pow10(_)
Pow10(n) == IF n = 0 THEN 1 ELSE 10 * Pow10(n - 1)

MantDigits == 5

\* abs(value) > 10^k
AbsGT(v, k) ==
  /\ v.mant > 0
  /\ IF v.exp > k THEN TRUE
     ELSE IF k - v.exp >= MantDigits THEN FALSE
     ELSE v.mant > Pow10(k - v.exp)

\* `abs(value) >= 1e<k>`
AbsGE(v, k) ==
  /\ v.mant > 0
  /\ IF v.exp >= k THEN TRUE
     ELSE IF k - v.exp >= MantDigits THEN FALSE
     ELSE v.mant >= Pow10(k - v.exp)

\* The if/elif chain with exclusive comparisons.
UnitExp_Exclusive(v) ==
  IF AbsGT(v, 12) THEN 12
  ELSE IF AbsGT(v, 9) THEN 9
  ELSE IF AbsGT(v, 6) THEN 6
  ELSE IF AbsGT(v, 3) THEN 3
  ELSE 0

\* The if/elif chain: the exponent of the unit the value is divided by.
UnitExp(v) ==
  IF AbsGE(v, 12) THEN 12
  ELSE IF AbsGE(v, 9) THEN 9
  ELSE IF AbsGE(v, 6) THEN 6
  ELSE IF AbsGE(v, 3) THEN 3
  ELSE 0

\* The letter each branch's f-string ends with.
Suffix(k) == CASE k = 12 -> "T" [] k = 9 -> "B" [] k = 6 -> "M" [] k = 3 -> "K"
               [] OTHER -> ""

\* m / d rounded to an integer.  An exact half is decided by the binary
\* value of the float, which the decimal value does not fix: either way.
RoundDiv(m, d, tie_up) ==
  LET q == m \div d
      r == m % d
  IN IF 2 * r > d THEN q + 1
     ELSE IF 2 * r < d THEN q
     ELSE IF tie_up THEN q + 1 ELSE q

\* `{value/1e<k>:.2f}`: the quotient in hundredths.
Hundredths(v, k, tie_up) ==
  LET s == v.exp - k + 2
  IN IF s >= 0 THEN v.mant * Pow10(s) ELSE RoundDiv(v.mant, Pow10(0 - s), tie_up)

\* The returned string: "$", "-" if neg, hundredths with two decimals, suffix.
format_currency(value, tie_up) ==
  LET k == UnitExp(value)
  IN [neg |-> value.neg, hundredths |-> Hundredths(value, k, tie_up),
      suffix |-> Suffix(k)]

Mantissas == {0, 1, 5, 12, 999, 1000, 1001, 1005, 9995, 9999, 12345, 99949,
              99950, 99951, 99994, 99995, 99999}
Exps == (0 - 3)..MaxExp
\* Zero is written with exponent 0.
Values == {v \in [neg : BOOLEAN, mant : Mantissas, exp : Exps] :
             v.mant = 0 => v.exp = 0}

InitCurrency ==
  /\ fc_pc = "called"
  /\ fc_value \in Values
  /\ fc_result = [neg |-> FALSE, hundredths |-> 0, suffix |-> ""]
  /\ CurrencyOthersIdle

FormatCurrency ==
  /\ fc_pc = "called"
  /\ \E tie_up \in BOOLEAN : fc_result' = format_currency(fc_value, tie_up)
  /\ fc_pc' = "returned"
  /\ UNCHANGED fc_value
  /\ CurrencyFrame

NextCurrency == FormatCurrency

SpecCurrency == InitCurrency /\ [][NextCurrency]_vars

\* |value| >= 10^k: the mantissa has more than d digits, and d + exp >= k.
C9_MagnitudeAtLeast(v, k) ==
  \E d \in 0..MantDigits : v.mant >= Pow10(d) /\ d + v.exp >= k

\* The unit the claim assigns to a value.
C9_Unit(v) ==
  CASE C9_MagnitudeAtLeast(v, 12) -> [exp |-> 12, suffix |-> "T"]
    [] ~C9_MagnitudeAtLeast(v, 12) /\ C9_MagnitudeAtLeast(v, 9) -> [exp |-> 9, suffix |-> "B"]
    [] ~C9_MagnitudeAtLeast(v, 9) /\ C9_MagnitudeAtLeast(v, 6) -> [exp |-> 6, suffix |-> "M"]
    [] ~C9_MagnitudeAtLeast(v, 6) /\ C9_MagnitudeAtLeast(v, 3) -> [exp |-> 3, suffix |-> "K"]
    [] ~C9_MagnitudeAtLeast(v, 3) -> [exp |-> 0, suffix |-> ""]

\* h hundredths is value / 10^k to two decimals: off by at most half a hundredth.
C9_TwoDecimals(h, v, k) ==
  LET s == v.exp - k + 2
  IN IF s >= 0 THEN h = v.mant * Pow10(s)
     ELSE LET d == Pow10(0 - s)
              diff == h * d - v.mant
          IN 2 * diff <= d /\ 2 * diff >= 0 - d

\* C9: format_currency picks 'T' iff |value| >= 10^12, else 'B' iff >= 10^9,
\* else 'M' iff >= 10^6, else 'K' iff >= 10^3, else no suffix, and prints the
\* value divided by the chosen unit with two decimals, the sign kept.
C9_UnitByMagnitude ==
  fc_pc = "returned" =>
    LET u == C9_Unit(fc_value)
    IN /\ fc_result.suffix = u.suffix
       /\ fc_result.neg = fc_value.neg
       /\ C9_TwoDecimals(fc_result.hundredths, fc_value, u.exp)

\* format_currency(1000) = "$1.00K": a value on a threshold, as in the test.
C9_Witness ==
  /\ fc_pc = "returned"
  /\ fc_value = [neg |-> FALSE, mant |-> 1000, exp |-> 0]
  /\ fc_result = [neg |-> FALSE, hundredths |-> 100, suffix |-> "K"]

\* ------------------------------------------------------- Indicator Engine
\* DataProcessor, from section 4.1 of the specification.  A price history is
\* modelled by its number of bars; a dictionary by the function from its keys,
\* the IndicatorSet by the set of the indicator names it holds.
SMAWindows == {10, 20}
RSIPeriod == 14
MACDSlow == 26

SMAName(n) == IF n = 10 THEN "sma_10" ELSE "sma_20"

EmptyDict == <<>>

\* A year of daily bars, as the tests build it.
YearBars == 365

\* The histories the model passes in: empty, one below and on each window, and
\* a year.
EngineLens ==
  {0, YearBars} \cup UNION {{n - 1, n} : n \in SMAWindows \cup {RSIPeriod, MACDSlow}}

\* An engine that falls back to the RSI midpoint on a short history.
IndicatorNames_RSIFallback(history, macd_min) ==
  {SMAName(n) : n \in {w \in SMAWindows : history >= w}}
  \cup {"rsi"}
  \cup (IF history >= macd_min THEN {"macd"} ELSE {})

\* The indicators whose window the history fills.  For the MACD the
\* specification fixes only the two ends: emitted with 26 bars, not with none.
IndicatorNames(history, macd_min) ==
  {SMAName(n) : n \in {w \in SMAWindows : history >= w}}
  \cup (IF history >= RSIPeriod THEN {"rsi"} ELSE {})
  \cup (IF history >= macd_min THEN {"macd"} ELSE {})

\* An engine that indexes the last bar before looking at the length.
calculate_technical_indicators_Unguarded(history, macd_min) ==
  IF history = 0 THEN [raised |-> TRUE, value |-> {}]
  ELSE [raised |-> FALSE, value |-> IndicatorNames(history, macd_min)]

\* _calculate_technical_indicators: under-length windows are omitted, nothing
\* is raised.
calculate_technical_indicators(history, macd_min) ==
  [raised |-> FALSE, value |-> IndicatorNames(history, macd_min)]

OtherSections == {"price_levels", "volume_analysis", "volatility",
                  "trend_analysis", "momentum"}

\* One symbol's result: {} for an empty history, else the six sections.
ProcessSymbol(history, macd_min) ==
  IF history = 0 THEN EmptyDict
  ELSE [k \in OtherSections \cup {"technical_indicators"} |->
          IF k = "technical_indicators"
          THEN calculate_technical_indicators(history, macd_min).value
          ELSE {"computed"}]

\* process_realtime_data: one result per symbol of the mapping.
process_realtime_data(raw, macd_min) ==
  [raised |-> \E sym \in DOMAIN raw :
                 calculate_technical_indicators(raw[sym], macd_min).raised,
   value |-> [sym \in DOMAIN raw |-> ProcessSymbol(raw[sym], macd_min)]]

RawData == UNION {[SeqToSet(syms) -> EngineLens] : syms \in SymbolLists}

InitProcessor ==
  /\ dp_pc = "called"
  /\ ti_pc = "called"
  /\ macd_min_bars \in {1, MACDSlow}
  /\ raw_data \in RawData
  /\ dp_result = [raised |-> FALSE, value |-> <<>>]
  /\ ti_history \in EngineLens
  /\ ti_result = [raised |-> FALSE, value |-> {}]
  /\ ProcessorOthersIdle

ProcessRealtimeData ==
  /\ dp_pc = "called"
  /\ dp_result' = process_realtime_data(raw_data, macd_min_bars)
  /\ dp_pc' = "returned"
  /\ UNCHANGED <<ti_pc, macd_min_bars, raw_data, ti_history, ti_result>>
  /\ ProcessorFrame

CalculateTechnicalIndicators ==
  /\ ti_pc = "called"
  /\ ti_result' = calculate_technical_indicators(ti_history, macd_min_bars)
  /\ ti_pc' = "returned"
  /\ UNCHANGED <<dp_pc, macd_min_bars, raw_data, dp_result, ti_history>>
  /\ ProcessorFrame

NextProcessor == ProcessRealtimeData \/ CalculateTechnicalIndicators

SpecProcessor == InitProcessor /\ [][NextProcessor]_vars

\* C10: on empty input the Indicator Engine returns an empty result and does
\* not raise: process_realtime_data({}) is {}, and
\* _calculate_technical_indicators of an empty history is {}.
C10_EmptyInputEmptyResult ==
  /\ (dp_pc = "returned" /\ DOMAIN raw_data = {})
     => (~dp_result.raised /\ dp_result.value = EmptyDict)
  /\ (ti_pc = "returned" /\ ti_history = 0)
     => (~ti_result.raised /\ ti_result.value = {})

\* Both calls made on empty input, both returned.
C10_Witness ==
  /\ dp_pc = "returned"
  /\ ti_pc = "returned"
  /\ DOMAIN raw_data = {}
  /\ ti_history = 0
  /\ dp_result.value = EmptyDict
  /\ ti_result.value = {}

Float(nan, num, den, k) == [nan |-> nan, num |-> num, den |-> den, k |-> k]

TradingDays == 252

\* pandas Series.std(): the sample standard deviation (ddof = 1), NaN for
\* fewer than two values.
SeriesStd(x) ==
  LET n == Len(x)
      sum == SeqSum(x)
      sumsq == SeqSum([i \in DOMAIN x |-> x[i] * x[i]])
  IN IF n < 2 THEN Float(TRUE, 0, 1, 0)
     ELSE Float(FALSE, n * sumsq - sum * sum, n * (n - 1), 0)

\* `vol * np.sqrt(252)`; NaN stays NaN.
TimesSqrt252(v) == [v EXCEPT !.k = @ + 1]

RECURSIVE PowDays(_)
PowDays(k) == IF k = 0 THEN 1 ELSE TradingDays * PowDays(k - 1)

\* Python's `a == b` on floats: never true of a NaN.
FloatEq(a, b) ==
  /\ ~a.nan /\ ~b.nan
  /\ a.num * b.den * PowDays(a.k) = b.num * a.den * PowDays(b.k)

calculate_volatility(returns, annualize) ==
  LET vol == SeriesStd(returns)
  IN IF annualize THEN TimesSqrt252(vol) ELSE vol

Returns == (0 - MaxReturn)..MaxReturn

\* The dictionary d with d[key] = value.
DictSet(d, key, value) ==
  [x \in DOMAIN d \cup {key} |-> IF x = key THEN value ELSE d[x]]

InitVolatility ==
  /\ call_fn = "calculate_volatility"
  /\ call_pc = "called"
  /\ call_args \in [returns : SeqsUpTo(Returns, MaxReturnsLen)]
  /\ call_ret = <<>>
  /\ CallOthersIdle

\* One call with annualize=a; the model makes each of the two calls once.
CalculateVolatility(a) ==
  /\ call_fn = "calculate_volatility"
  /\ LET field == IF a THEN "annualized" ELSE "daily"
     IN /\ field \notin DOMAIN call_ret
        /\ call_ret' = DictSet(call_ret, field,
                                calculate_volatility(call_args.returns, a))
  /\ call_pc' = IF DOMAIN call_ret' = {"daily", "annualized"}
                THEN "returned" ELSE "called"
  /\ UNCHANGED <<call_fn, call_args>>
  /\ CallFrame

NextVolatility == CalculateVolatility(TRUE) \/ CalculateVolatility(FALSE)

SpecVolatility == InitVolatility /\ [][NextVolatility]_vars

\* C12: for every returns series, calculate_volatility(returns, True) ==
\* calculate_volatility(returns, False) * sqrt(252).
C12_AnnualizedIsDailyTimesSqrt252 ==
  (call_fn = "calculate_volatility" /\ call_pc = "returned") =>
    FloatEq(call_ret.annualized, TimesSqrt252(call_ret.daily))

\* ------------------------------------------------- _calculate_price_levels
\* DataProcessor._calculate_price_levels, from section 4.1 of the
\* specification.  Levels are kept exactly, in thirds of a price unit.
Bars == {b \in [high : Prices, low : Prices, close : Prices] :
           b.low <= b.close /\ b.close <= b.high}

\* The classic floor-trader levels of one bar.
PivotLevels(bar) ==
  LET pivot3 == bar.high + bar.low + bar.close
  IN [pivot_point |-> pivot3,
      resistance_1 |-> 2 * pivot3 - 3 * bar.low,
      support_1 |-> 2 * pivot3 - 3 * bar.high]

\* Levels taken from the oldest bar.
calculate_price_levels_FirstBar(history) ==
  IF history = <<>> THEN EmptyDict ELSE PivotLevels(history[1])

\* Levels from the most recent bar; nothing for an empty history.
calculate_price_levels(history) ==
  IF history = <<>> THEN EmptyDict ELSE PivotLevels(history[Len(history)])

InitPriceLevels ==
  /\ call_fn = "_calculate_price_levels"
  /\ call_pc = "called"
  /\ call_args \in [history : SeqsUpTo(Bars, MaxLevelBars)]
  /\ call_ret = <<>>
  /\ CallOthersIdle

CalculatePriceLevels ==
  /\ call_fn = "_calculate_price_levels"
  /\ call_pc = "called"
  /\ call_ret' = calculate_price_levels(call_args.history)
  /\ call_pc' = "returned"
  /\ UNCHANGED <<call_fn, call_args>>
  /\ CallFrame

NextPriceLevels == CalculatePriceLevels

SpecPriceLevels == InitPriceLevels /\ [][NextPriceLevels]_vars

\* C13: for a non-empty history with most recent bar (high, low, close) the
\* price levels hold pivot_point, resistance_1 and support_1, with
\* pivot_point = (high + low + close) / 3,
\* resistance_1 - pivot_point = pivot_point - low and
\* pivot_point - support_1 = high - pivot_point.  (All in thirds.)
C13_PivotInvariant ==
  (call_fn = "_calculate_price_levels" /\ call_pc = "returned"
     /\ call_args.history # <<>>) =>
    LET bar == call_args.history[Len(call_args.history)]
    IN /\ {"pivot_point", "resistance_1", "support_1"} \subseteq DOMAIN call_ret
       /\ call_ret.pivot_point = bar.high + bar.low + bar.close
       /\ call_ret.resistance_1 - call_ret.pivot_point
            = call_ret.pivot_point - 3 * bar.low
       /\ call_ret.pivot_point - call_ret.support_1
            = 3 * bar.high - call_ret.pivot_point

\* Two bars, the latest with high 3, low 1, close 2: pivot 2, R1 3, S1 1.
C13_Witness ==
  /\ call_fn = "_calculate_price_levels"
  /\ call_pc = "returned"
  /\ Len(call_args.history) = 2
  /\ call_args.history[1] = [high |-> 1, low |-> 1, close |-> 1]
  /\ call_args.history[2] = [high |-> 3, low |-> 1, close |-> 2]
  /\ call_ret = [pivot_point |-> 6, resistance_1 |-> 9, support_1 |-> 3]

\* --------------------------------------------------------------------- RSI
\* The RSI of the Indicator Engine, from section 4.1 and scenario A of the
\* specification.  Averages are kept as integers over a common denominator,
\* the RSI as the fraction num / den.
RSICloses == {1, 2}

Gain(closes, i) == IF closes[i + 1] > closes[i] THEN closes[i + 1] - closes[i] ELSE 0
Loss(closes, i) == IF closes[i + 1] < closes[i] THEN closes[i] - closes[i + 1] ELSE 0

\* Wilder's smoothing of x[1..n]: the mean of the first 14 values (of all of
\* them, if fewer), then avg' = (13 * avg + x) / 14 for each later one.  The
\* result is the average times 14^(1 + number of later values).
RECURSIVE Wilder(_, _, _)
Wilder(x, n, scale) ==
  IF n <= RSIPeriod THEN SumRange(x, 1, n)
  ELSE (RSIPeriod - 1) * Wilder(x, n - 1, scale \div RSIPeriod) + scale * x[n]

RECURSIVE PowPeriod(_)
PowPeriod(k) == IF k = 0 THEN 1 ELSE RSIPeriod * PowPeriod(k - 1)

RSIAverages(closes) ==
  LET n == Len(closes) - 1
      scale == IF n <= RSIPeriod THEN 1 ELSE PowPeriod(n - RSIPeriod)
  IN [gain |-> Wilder([i \in 1..n |-> Gain(closes, i)], n, scale),
      loss |-> Wilder([i \in 1..n |-> Loss(closes, i)], n, scale)]

RSIOmitted == [present |-> FALSE, num |-> 0, den |-> 1]
RSIValue(num, den) == [present |-> TRUE, num |-> num, den |-> den]

\* What the specification allows for a history without any change: 100 (zero
\* average loss), or omitted, or the midpoint 50 (scenario A).
FlatOutcomes == {RSIValue(100, 1), RSIValue(50, 1), RSIOmitted}

\* `clamps to [0, 100]`
Clamp(r) ==
  IF r.num < 0 THEN RSIValue(0, 1)
  ELSE IF r.num > 100 * r.den THEN RSIValue(100, 1)
  ELSE r

\* 100 - 100 / (1 + gain / loss) with no test for a zero average loss.
calculate_rsi_Unguarded(closes, flat) ==
  IF Len(closes) < RSIPeriod THEN RSIOmitted
  ELSE LET a == RSIAverages(closes)
       IN RSIValue(100 * a.gain * a.loss, (a.gain + a.loss) * a.loss)

\* RSI = 100 - 100 / (1 + gain / loss) = 100 * gain / (gain + loss).
calculate_rsi(closes, flat) ==
  IF Len(closes) < RSIPeriod THEN RSIOmitted
  ELSE LET a == RSIAverages(closes)
       IN IF a.loss = 0
          THEN (IF a.gain = 0 THEN flat ELSE RSIValue(100, 1))
          ELSE Clamp(RSIValue(100 * a.gain, a.gain + a.loss))

InitRSI ==
  /\ call_fn = "_calculate_rsi"
  /\ call_pc = "called"
  /\ call_args \in [closes : UNION {[1..n -> RSICloses] :
                                     n \in (RSIPeriod - 1)..(RSIPeriod + MaxExtraBars)}]
  /\ call_ret = <<>>
  /\ CallOthersIdle

CalculateRSI ==
  /\ call_fn = "_calculate_rsi"
  /\ call_pc = "called"
  /\ \E flat \in FlatOutcomes : call_ret' = calculate_rsi(call_args.closes, flat)
  /\ call_pc' = "returned"
  /\ UNCHANGED <<call_fn, call_args>>
  /\ CallFrame

NextRSI == CalculateRSI

SpecRSI == InitRSI /\ [][NextRSI]_vars

RSIReturned == call_fn = "_calculate_rsi" /\ call_pc = "returned"

\* No close is below the one before it: the average loss is zero.
C14_NoLoss(closes) == \A i \in 1..(Len(closes) - 1) : closes[i + 1] >= closes[i]
C14_SomeGain(closes) == \E i \in 1..(Len(closes) - 1) : closes[i + 1] > closes[i]

\* A reported RSI is a number within [0, 100], not a quotient by zero.
C14_InRange ==
  call_ret.present =>
    /\ call_ret.den > 0
    /\ 0 <= call_ret.num /\ call_ret.num <= 100 * call_ret.den

SymbolOutputs ==
  {d \in [has_data : BOOLEAN, change : {0 - 1, 0, 1}, high_volume : BOOLEAN] :
     ~d.has_data => (d.change = 0 /\ ~d.high_volume)}

Baskets == UNION {[SeqToSet(syms) -> SymbolOutputs] : syms \in SymbolLists}

\* `skips symbols with no/empty data`
WithData(basket) == {sym \in DOMAIN basket : basket[sym].has_data}

\* sign(x) for the label of a count difference
Direction(x) == IF x > 0 THEN "bullish" ELSE IF x < 0 THEN "bearish" ELSE "neutral"

\* Counts over every symbol of the basket, a symbol without data as unchanged.
AdvanceDecline_CountsAll(basket) ==
  LET up == Cardinality({sym \in WithData(basket) : basket[sym].change > 0})
      down == Cardinality({sym \in WithData(basket) : basket[sym].change < 0})
      flat == Cardinality({sym \in DOMAIN basket : basket[sym].change = 0})
  IN [advancing |-> up, declining |-> down, unchanged |-> flat,
      ad_line |-> up - down, market_breadth |-> Direction(up - down)]

\* `advance_decline_ratio`: symbols with positive / negative / flat change.
AdvanceDecline(basket) ==
  LET up == Cardinality({sym \in WithData(basket) : basket[sym].change > 0})
      down == Cardinality({sym \in WithData(basket) : basket[sym].change < 0})
      flat == Cardinality({sym \in WithData(basket) : basket[sym].change = 0})
  IN [advancing |-> up, declining |-> down, unchanged |-> flat,
      ad_line |-> up - down, market_breadth |-> Direction(up - down)]

\* `volume_sentiment`: above-average volume on up moves against down moves.
VolumeSentiment(basket) ==
  LET up == Cardinality({sym \in WithData(basket) :
                           basket[sym].high_volume /\ basket[sym].change > 0})
      down == Cardinality({sym \in WithData(basket) :
                             basket[sym].high_volume /\ basket[sym].change < 0})
  IN [high_volume_up |-> up, high_volume_down |-> down,
      volume_sentiment |-> Direction(up - down)]

SentimentLabels == {"Strong Bearish", "Bearish", "Neutral", "Bullish", "Strong Bullish"}
FearGreedLabels == {"Extreme Fear", "Fear", "Neutral", "Greed", "Extreme Greed"}

SentimentError == [error |-> "no market data"]

\* The four fields for every basket, the empty one included.
analyze_sentiment_indicators_NoGuard(basket, overall, fear_greed) ==
  [overall_sentiment |-> overall,
   fear_greed_index |-> fear_greed,
   advance_decline_ratio |-> AdvanceDecline(basket),
   volume_sentiment |-> VolumeSentiment(basket)]

\* The composer: an error for a basket without data, else the four fields.
\* The two composite labels are inputs here: their thresholds are not fixed.
analyze_sentiment_indicators(basket, overall, fear_greed) ==
  IF WithData(basket) = {} THEN SentimentError
  ELSE [overall_sentiment |-> overall,
        fear_greed_index |-> fear_greed,
        advance_decline_ratio |-> AdvanceDecline(basket),
        volume_sentiment |-> VolumeSentiment(basket)]

InitSentiment ==
  /\ call_fn = "analyze_sentiment_indicators"
  /\ call_pc = "called"
  /\ call_args \in [basket : Baskets]
  /\ call_ret = <<>>
  /\ CallOthersIdle

AnalyzeSentimentIndicators ==
  /\ call_fn = "analyze_sentiment_indicators"
  /\ call_pc = "called"
  /\ \E overall \in SentimentLabels, fear_greed \in FearGreedLabels :
       call_ret' = analyze_sentiment_indicators(call_args.basket, overall, fear_greed)
  /\ call_pc' = "returned"
  /\ UNCHANGED <<call_fn, call_args>>
  /\ CallFrame

NextSentiment == AnalyzeSentimentIndicators

SpecSentiment == InitSentiment /\ [][NextSentiment]_vars

SentimentReturned == call_fn = "analyze_sentiment_indicators" /\ call_pc = "returned"

\* The symbols of the basket that have data.
C15_SymbolsWithData == {sym \in DOMAIN call_args.basket : call_args.basket[sym].has_data}

\* C15: the advance/decline result of every basket satisfies
\* advancing + declining + unchanged = number of symbols that have data.
C15_BreadthCountsSymbolsWithData ==
  (SentimentReturned /\ "advance_decline_ratio" \in DOMAIN call_ret) =>
    LET ad == call_ret.advance_decline_ratio
    IN ad.advancing + ad.declining + ad.unchanged = Cardinality(C15_SymbolsWithData)

\* A basket of one advancing symbol and one symbol without data.
C15_Witness ==
  /\ SentimentReturned
  /\ Cardinality(DOMAIN call_args.basket) = 2
  /\ Cardinality(C15_SymbolsWithData) = 1
  /\ "advance_decline_ratio" \in DOMAIN call_ret
  /\ call_ret.advance_decline_ratio.advancing = 1
  /\ call_ret.advance_decline_ratio.unchanged = 0

R2Values == (0 - MaxNegR2)..100
Adjustments == (0 - MaxAdjust)..MaxAdjust

\* The score without the clamp.
ConfidenceScore_Unclamped(r2, adjust) == r2 + adjust

\* `a bounded [0,100] value ... must clamp to the bounds`
ConfidenceScore(r2, adjust) ==
  LET raw == r2 + adjust
  IN IF raw < 0 THEN 0 ELSE IF raw > 100 THEN 100 ELSE raw

PredictionError == [error |-> "insufficient data"]

\* An `error` result if the history is too short or the model cannot be fit,
\* else the numeric fields.
predict_price_movement(history_len, fit_ok, r2, adjust) ==
  IF history_len < MinBars \/ ~fit_ok THEN PredictionError
  ELSE [confidence_score |-> ConfidenceScore(r2, adjust),
        model_accuracy |-> [r2_score |-> r2]]

InitPredictor ==
  /\ call_fn = "predict_price_movement"
  /\ call_pc = "called"
  /\ call_args \in [history_len : {MinBars - 1, MinBars}, fit_ok : BOOLEAN]
  /\ call_ret = <<>>
  /\ CallOthersIdle

\* The fit decides the held-out R^2 and the adjustment.
PredictPriceMovement ==
  /\ call_fn = "predict_price_movement"
  /\ call_pc = "called"
  /\ \E r2 \in R2Values, adjust \in Adjustments :
       call_ret' = predict_price_movement(call_args.history_len, call_args.fit_ok,
                                          r2, adjust)
  /\ call_pc' = "returned"
  /\ UNCHANGED <<call_fn, call_args>>
  /\ CallFrame

NextPredictor == PredictPriceMovement

SpecPredictor == InitPredictor /\ [][NextPredictor]_vars

PredictorReturned == call_fn = "predict_price_movement" /\ call_pc = "returned"

\* C17: a PredictionResult without an 'error' field has its confidence_score
\* within [0, 100], whatever the held-out R^2, negative values included.
C17_ConfidenceBounded ==
  (PredictorReturned /\ "error" \notin DOMAIN call_ret) =>
    (call_ret.confidence_score >= 0 /\ call_ret.confidence_score <= 100)

\* A fit with negative R^2, its score clamped to 0.
C17_Witness ==
  /\ PredictorReturned
  /\ "error" \notin DOMAIN call_ret
  /\ call_ret.model_accuracy.r2_score < 0
  /\ call_ret.confidence_score = 0

\* ------------------------------------------------ _format_data_for_analysis
\* A dictionary is the function from its keys; None is a value of its own.
None == [none |-> TRUE, dict |-> <<>>]
Dict(d) == [none |-> FALSE, dict |-> d]

\* `if data:` is false for None and for {}.
Truthy(data) == ~data.none /\ DOMAIN data.dict # {}

\* `d.get(key, default)`
Get(d, key, default) == IF key \in DOMAIN d THEN d[key] ELSE default

\* The dictionary d without one key.
DictDel(d, key) == [x \in DOMAIN d \ {key} |-> d[x]]

\* One symbol's processed data with every field the summary reads.
FullData ==
  [current_price |-> 5, price_change_percent |-> 2,
   volume_analysis |-> [volume_ratio |-> 3],
   technical_indicators |-> [rsi |-> 70],
   trend_analysis |-> [short_term_trend |-> "bullish"],
   volatility |-> [daily_volatility |-> 1]]

Sections == {"volume_analysis", "technical_indicators", "trend_analysis", "volatility"}

\* The data the model passes in: None, {}, all fields, one key missing, one
\* section empty, only keys the summary does not read.
MarketDataForms ==
  {None, Dict(<<>>), Dict(FullData), Dict([symbol_info |-> "info"])}
  \cup {Dict(DictDel(FullData, key)) : key \in DOMAIN FullData}
  \cup {Dict(DictSet(FullData, key, <<>>)) : key \in Sections}

\* market_data.items(), in the dictionary's order.
MarketData ==
  UNION {[DOMAIN syms -> MarketDataForms] : syms \in SymbolLists}

\* Lines 274-282: the summary of one symbol.
Summary(symbol, data) ==
  [symbol |-> symbol,
   price |-> Get(data, "current_price", 0),
   change_pct |-> Get(data, "price_change_percent", 0),
   volume_ratio |-> Get(Get(data, "volume_analysis", <<>>), "volume_ratio", 0),
   rsi |-> Get(Get(data, "technical_indicators", <<>>), "rsi", 50),
   trend |-> Get(Get(data, "trend_analysis", <<>>), "short_term_trend", "neutral"),
   volatility |-> Get(Get(data, "volatility", <<>>), "daily_volatility", 0)]

\* The loop without the `if data:` test.
RECURSIVE format_data_for_analysis_NoSkip(_, _)
format_data_for_analysis_NoSkip(market_data, i) ==
  IF i > Len(market_data) THEN <<>>
  ELSE <<Summary(AllSymbols[i], market_data[i].dict)>>
       \o format_data_for_analysis_NoSkip(market_data, i + 1)

\* The loop over market_data.items() from the i-th item on: the list that
\* json.dumps writes out.
RECURSIVE format_data_for_analysis(_, _)
format_data_for_analysis(market_data, i) ==
  IF i > Len(market_data) THEN <<>>
  ELSE (IF Truthy(market_data[i])
        THEN <<Summary(AllSymbols[i], market_data[i].dict)>> ELSE <<>>)
       \o format_data_for_analysis(market_data, i + 1)

InitFormatData ==
  /\ call_fn = "_format_data_for_analysis"
  /\ call_pc = "called"
  /\ call_args \in [market_data : MarketData]
  /\ call_ret = <<>>
  /\ CallOthersIdle

FormatDataForAnalysis ==
  /\ call_fn = "_format_data_for_analysis"
  /\ call_pc = "called"
  /\ call_ret' = format_data_for_analysis(call_args.market_data, 1)
  /\ call_pc' = "returned"
  /\ UNCHANGED <<call_fn, call_args>>
  /\ CallFrame

NextFormatData == FormatDataForAnalysis

SpecFormatData == InitFormatData /\ [][NextFormatData]_vars

FormatDataReturned == call_fn = "_format_data_for_analysis" /\ call_pc = "returned"

\* The positions of the symbols whose data is neither None nor {}.
C18_NonEmpty ==
  {i \in DOMAIN call_args.market_data :
     ~call_args.market_data[i].none /\ call_args.market_data[i].dict # <<>>}

\* The value at data[section][field] if both exist, else the fallback.
C18_Field(data, section, field, fallback) ==
  IF section \in DOMAIN data /\ field \in DOMAIN data[section]
  THEN data[section][field] ELSE fallback

\* C18: one summary per symbol with non-empty data, in input order, each with
\* exactly the seven fields; symbols with empty or missing data give none; a
\* missing sub-field is replaced by its fallback (rsi 50, trend 'neutral',
\* others 0).
C18_OneSummaryPerSymbolWithData ==
  FormatDataReturned =>
    /\ Len(call_ret) = Cardinality(C18_NonEmpty)
    /\ \A k \in DOMAIN call_ret :
         /\ DOMAIN call_ret[k] = {"symbol", "price", "change_pct", "volume_ratio",
                                  "rsi", "trend", "volatility"}
         /\ \E i \in C18_NonEmpty :
              /\ Cardinality({j \in C18_NonEmpty : j <= i}) = k
              /\ LET data == call_args.market_data[i].dict
                 IN /\ call_ret[k].symbol = AllSymbols[i]
                    /\ call_ret[k].price =
                         IF "current_price" \in DOMAIN data THEN data.current_price ELSE 0
                    /\ call_ret[k].change_pct =
                         IF "price_change_percent" \in DOMAIN data
                         THEN data.price_change_percent ELSE 0
                    /\ call_ret[k].volume_ratio =
                         C18_Field(data, "volume_analysis", "volume_ratio", 0)
                    /\ call_ret[k].rsi =
                         C18_Field(data, "technical_indicators", "rsi", 50)
                    /\ call_ret[k].trend =
                         C18_Field(data, "trend_analysis", "short_term_trend", "neutral")
                    /\ call_ret[k].volatility =
                         C18_Field(data, "volatility", "daily_volatility", 0)

\* {'AAPL': {}, 'GOOGL': data without technical_indicators}: one summary, for
\* GOOGL, with the fallback rsi 50.
C18_Witness ==
  /\ FormatDataReturned
  /\ Len(call_args.market_data) = 2
  /\ call_args.market_data[1] = Dict(<<>>)
  /\ call_args.market_data[2] = Dict(DictDel(FullData, "technical_indicators"))
  /\ Len(call_ret) = 1
  /\ call_ret[1].symbol = "GOOGL"
  /\ call_ret[1].rsi = 50
  /\ call_ret[1].price = 5

\* ---------------------------------------------------------- series utilities
\* A fraction num / den with den > 0.
Frac(num, den) == [num |-> num, den |-> den]
FracLT(a, b) == a.num * b.den < b.num * a.den

\* prices.pct_change().fillna(0): 0 first, then the relative changes.
calculate_returns(prices) ==
  [start |-> prices.start,
   values |-> [i \in 1..SeriesLen(prices) |->
                 IF i = 1 THEN Frac(0, 1)
                 ELSE Frac(prices.values[i] - prices.values[i - 1],
                           prices.values[i - 1])]]

\* prices.expanding().max()
ExpandingMax(v) == [i \in DOMAIN v |-> SeqMax(SubSeq(v, 1, i))]

\* The first position at which f is least (idxmin) among 1..n.
RECURSIVE ArgMinFrac(_, _)
ArgMinFrac(f, n) ==
  IF n = 1 THEN 1
  ELSE LET k == ArgMinFrac(f, n - 1) IN IF FracLT(f[n], f[k]) THEN n ELSE k

\* The last position at which v is greatest among 1..n.
RECURSIVE ArgMax_Last(_, _)
ArgMax_Last(v, n) ==
  IF n = 1 THEN 1
  ELSE LET k == ArgMax_Last(v, n - 1) IN IF v[n] >= v[k] THEN n ELSE k

\* The first position at which v is greatest (idxmax) among 1..n.
RECURSIVE ArgMax(_, _)
ArgMax(v, n) ==
  IF n = 1 THEN 1
  ELSE LET k == ArgMax(v, n - 1) IN IF v[n] > v[k] THEN n ELSE k

\* Lines 138-151, for a non-empty series.
calculate_max_drawdown(prices) ==
  LET v == prices.values
      peak == ExpandingMax(v)
      drawdown == [i \in DOMAIN v |-> Frac(v[i] - peak[i], peak[i])]
      trough == ArgMinFrac(drawdown, Len(v))
      top == ArgMax(peak, trough)
  IN [max_drawdown |-> drawdown[trough],
      max_drawdown_percent |-> Frac(100 * drawdown[trough].num, drawdown[trough].den),
      peak_date |-> prices.start + top - 1,
      trough_date |-> prices.start + trough - 1]

RECURSIVE InsertAsc(_, _)
InsertAsc(sorted, x) ==
  IF sorted = <<>> THEN <<x>>
  ELSE IF Head(sorted) <= x THEN <<Head(sorted)>> \o InsertAsc(Tail(sorted), x)
       ELSE <<x>> \o sorted

RECURSIVE SortAsc(_)
SortAsc(v) == IF v = <<>> THEN <<>> ELSE InsertAsc(SortAsc(Tail(v)), Head(v))

\* Series.quantile(k / 4), linear interpolation, times 4; v is non-empty.
Quantile4(v, k) ==
  LET sorted == SortAsc(v)
      h4 == k * (Len(v) - 1)
      lo == (h4 \div 4) + 1
      frac == h4 % 4
  IN IF frac = 0 THEN 4 * sorted[lo]
     ELSE 4 * sorted[lo] + frac * (sorted[lo + 1] - sorted[lo])

\* Lines 164-170 (method 'iqr'), for a non-empty series: the boolean mask.
detect_outliers(data) ==
  LET q1 == Quantile4(data.values, 1)
      q3 == Quantile4(data.values, 3)
      iqr == q3 - q1
      lower8 == 2 * q1 - 3 * iqr
      upper8 == 2 * q3 + 3 * iqr
  IN [start |-> data.start,
      values |-> [i \in 1..SeriesLen(data) |->
                    8 * data.values[i] < lower8 \/ 8 * data.values[i] > upper8]]

\* ------------------------------------------------ the caller's objects
\* The heap is the sequence of the Series objects alive; an object's id is its
\* position.  The caller's arguments come first; an operation that builds a
\* new Series appends it, one that assigns into a Series replaces its entry.
Derive(h, object, value) == [heap |-> Append(h, object), value |-> value, raised |-> FALSE]

\* `data -= data.min(); data /= ...`: the same arithmetic, done in place.
HeapNormalizeData_InPlace(h, id) ==
  [heap |-> [h EXCEPT ![id] = normalize_data(h[id])], value |-> id, raised |-> FALSE]

\* normalize_data: the arithmetic builds a new Series.
HeapNormalizeData(h, id) == Derive(h, normalize_data(h[id]), Len(h) + 1)

\* calculate_returns: pct_change() and fillna(0) build new Series.
HeapCalculateReturns(h, id) == Derive(h, calculate_returns(h[id]), Len(h) + 1)

\* calculate_max_drawdown: peak and drawdown are new Series, the result a dict.
HeapCalculateMaxDrawdown(h, id) ==
  Derive(h, Series(h[id].start, ExpandingMax(h[id].values)),
         calculate_max_drawdown(h[id]))

\* detect_outliers: the comparisons build a new boolean Series.
HeapDetectOutliers(h, id) == Derive(h, detect_outliers(h[id]), Len(h) + 1)

\* find_similar_patterns: tail(), iloc[] and normalize_data build new Series;
\* the result is a new list.
HeapFindSimilarPatterns(h, t, c, w) ==
  IF SeriesLen(h[t]) < w \/ SeriesLen(h[c]) < w
  THEN [heap |-> h, value |-> <<>>, raised |-> FALSE]
  ELSE Derive(h, normalize_data(SeriesTail(h[t], w)),
              find_similar_patterns(h[t], h[c], w).result)

\* clean_financial_data: data.copy() and dropna() build new frames; then
\* fillna(method='forward') raises ValueError (pandas knows the methods
\* 'ffill'/'pad' and 'bfill'/'backfill' only), before anything is assigned.
HeapCleanFinancialData(h, id) ==
  [heap |-> Append(Append(h, h[id]), h[id]), value |-> "ValueError", raised |-> TRUE]

NonEmptySeries == {Series(0, v) : v \in SeqsUpTo(Prices, MaxSeriesLen) \ {<<>>}}

UnaryOps == {"normalize_data", "calculate_returns", "calculate_max_drawdown",
             "detect_outliers", "clean_financial_data"}

PatternWindow == 2

InitUtilities ==
  /\ call_fn \in UnaryOps \cup {"find_similar_patterns"}
  /\ call_pc = "called"
  /\ IF call_fn \in UnaryOps
     THEN call_args \in [heap : {<<s>> : s \in NonEmptySeries}]
     ELSE call_args \in [heap : {<<t, c>> : t \in NonEmptySeries, c \in NonEmptySeries}]
  /\ call_ret = <<>>
  /\ CallOthersIdle

\* The call of one operation on the caller's first object.
CallUtility(op, result) ==
  /\ call_fn = op
  /\ call_pc = "called"
  /\ call_ret' = result
  /\ call_pc' = IF result.raised THEN "raised" ELSE "returned"
  /\ UNCHANGED <<call_fn, call_args>>
  /\ CallFrame

NormalizeData == CallUtility("normalize_data", HeapNormalizeData(call_args.heap, 1))
CalculateReturns == CallUtility("calculate_returns", HeapCalculateReturns(call_args.heap, 1))
CalculateMaxDrawdown ==
  CallUtility("calculate_max_drawdown", HeapCalculateMaxDrawdown(call_args.heap, 1))
DetectOutliers == CallUtility("detect_outliers", HeapDetectOutliers(call_args.heap, 1))
CleanFinancialData ==
  CallUtility("clean_financial_data", HeapCleanFinancialData(call_args.heap, 1))
FindSimilarPatternsOnHeap ==
  /\ call_fn = "find_similar_patterns"
  /\ CallUtility("find_similar_patterns",
                 HeapFindSimilarPatterns(call_args.heap, 1, 2, PatternWindow))

NextUtilities ==
  \/ NormalizeData
  \/ CalculateReturns
  \/ CalculateMaxDrawdown
  \/ DetectOutliers
  \/ CleanFinancialData
  \/ FindSimilarPatternsOnHeap

SpecUtilities == InitUtilities /\ [][NextUtilities]_vars

UtilityDone ==
  /\ call_fn \in UnaryOps \cup {"find_similar_patterns"}
  /\ call_pc \in {"returned", "raised"}

\* C19: after find_similar_patterns, normalize_data, calculate_returns,
\* calculate_max_drawdown, detect_outliers or clean_financial_data is over, each
\* Series the caller passed in holds the values it held before the call.
C19_InputsNotMutated ==
  UtilityDone =>
    \A id \in DOMAIN call_args.heap : call_ret.heap[id] = call_args.heap[id]

\* normalize_data has returned a new Series with other values than its input.
C19_Witness ==
  /\ call_fn = "normalize_data"
  /\ call_pc = "returned"
  /\ call_args.heap = <<Series(0, <<1, 3, 2>>)>>
  /\ call_ret.value = 2
  /\ call_ret.heap[2].num = <<0, 2, 1>>
  /\ call_ret.heap[1] = Series(0, <<1, 3, 2>>)

\* ------------------------------------------- normalize_data, both methods
\* num / den in floating point, den a Float: 0 / 0 is NaN, x / 0 is infinite;
\* no exception is raised (pandas divides element-wise, as numpy does).
Divide(num, den) ==
  [nan |-> den.nan \/ (den.num = 0 /\ num = 0),
   inf |-> ~den.nan /\ den.num = 0 /\ num # 0,
   num |-> num, den |-> den]

\* (data - data.min()) / (data.max() - data.min())
NormalizeMinMax(data) ==
  LET n == normalize_data(data)
  IN [i \in 1..SeriesLen(data) |-> Divide(n.num[i], Float(FALSE, n.den * n.den, 1, 0))]

\* (data - data.mean()) / data.std(), numerator and denominator times len(data)
NormalizeZScore(data) ==
  LET n == SeriesLen(data)
      sum == SeqSum(data.values)
      std == SeriesStd(data.values)
  IN [i \in 1..n |-> Divide(n * data.values[i] - sum,
                            [std EXCEPT !.num = @ * n * n])]

Methods == {"minmax", "zscore", "other"}

\* normalize_data(data, method)
NormalizeDataBy(data, method) ==
  IF method = "minmax" THEN [raised |-> FALSE, value |-> NormalizeMinMax(data)]
  ELSE IF method = "zscore" THEN [raised |-> FALSE, value |-> NormalizeZScore(data)]
  ELSE [raised |-> TRUE, value |-> <<>>]

InitNormalize ==
  /\ call_fn = "normalize_data(method)"
  /\ call_pc = "called"
  /\ call_args \in [data : NonEmptySeries, method : Methods]
  /\ call_ret = <<>>
  /\ CallOthersIdle

NormalizeDataMethod ==
  /\ call_fn = "normalize_data(method)"
  /\ call_pc = "called"
  /\ call_ret' = NormalizeDataBy(call_args.data, call_args.method)
  /\ call_pc' = IF call_ret'.raised THEN "raised" ELSE "returned"
  /\ UNCHANGED <<call_fn, call_args>>
  /\ CallFrame

NextNormalize == NormalizeDataMethod

SpecNormalize == InitNormalize /\ [][NextNormalize]_vars

\* All values of the series are the same.
C20_Constant(data) == \A i \in DOMAIN data.values : data.values[i] = data.values[1]

\* C20: normalize_data (min-max or z-score) of a constant series raises
\* nothing and returns a series of the fallback value 0, not NaN or infinity.
C20_ConstantSeriesGivesZero ==
  (call_fn = "normalize_data(method)" /\ call_pc # "called"
     /\ call_args.method \in {"minmax", "zscore"} /\ C20_Constant(call_args.data)) =>
    /\ ~call_ret.raised
    /\ \A i \in DOMAIN call_ret.value :
         /\ ~call_ret.value[i].nan /\ ~call_ret.value[i].inf
         /\ call_ret.value[i].num = 0

\* ------------------------------------------ safe_divide, calculate_sharpe_ratio
\* A float operand: NaN or an integer.
Operand(nan, v) == [nan |-> nan, v |-> v]
Operands == {Operand(TRUE, 0)} \cup {Operand(FALSE, v) : v \in (0 - MaxOperand)..MaxOperand}

\* The outcome of a guarded division: whether `/` was evaluated, and the value
\* returned (the fallback, or the quotient kept as numerator and denominator).
Fallback(value) == [divided |-> FALSE, value |-> value]
Quotient(numerator, denominator) ==
  [divided |-> TRUE, value |-> [num |-> numerator, den |-> denominator]]

\* The guard without the pd.isna test.
safe_divide_ZeroOnly(numerator, denominator, default) ==
  IF ~denominator.nan /\ denominator.v = 0
  THEN Fallback(default)
  ELSE Quotient(numerator, denominator)

\* `if denominator == 0 or pd.isna(denominator): return default`
safe_divide(numerator, denominator, default) ==
  IF (~denominator.nan /\ denominator.v = 0) \/ denominator.nan
  THEN Fallback(default)
  ELSE Quotient(numerator, denominator)

RiskFreeDen == 50

\* returns.mean() * 252 - risk_free_rate, with risk_free_rate = 0.02 = 1/50:
\* NaN for an empty series, else a fraction.
ExcessReturns(returns) ==
  IF returns = <<>> THEN [nan |-> TRUE, num |-> 0, den |-> 1]
  ELSE [nan |-> FALSE,
        num |-> RiskFreeDen * TradingDays * SeqSum(returns) - Len(returns),
        den |-> RiskFreeDen * Len(returns)]

\* `volatility == 0` on floats: false of a NaN.
FloatIsZero(f) == ~f.nan /\ f.num = 0

\* Lines 128-134.
calculate_sharpe_ratio(returns) ==
  LET excess_returns == ExcessReturns(returns)
      volatility == calculate_volatility(returns, TRUE)
  IN IF FloatIsZero(volatility) THEN Fallback(0)
     ELSE Quotient(excess_returns, volatility)

InitSafeDivision ==
  /\ call_fn \in {"safe_divide", "calculate_sharpe_ratio"}
  /\ call_pc = "called"
  /\ IF call_fn = "safe_divide"
     THEN call_args \in [numerator : Operands, denominator : Operands, default : {0, 1}]
     ELSE call_args \in [returns : SeqsUpTo(Returns, MaxReturnsLen)]
  /\ call_ret = <<>>
  /\ CallOthersIdle

SafeDivide ==
  /\ call_fn = "safe_divide"
  /\ call_pc = "called"
  /\ call_ret' = safe_divide(call_args.numerator, call_args.denominator,
                             call_args.default)
  /\ call_pc' = "returned"
  /\ UNCHANGED <<call_fn, call_args>>
  /\ CallFrame

CalculateSharpeRatio ==
  /\ call_fn = "calculate_sharpe_ratio"
  /\ call_pc = "called"
  /\ call_ret' = calculate_sharpe_ratio(call_args.returns)
  /\ call_pc' = "returned"
  /\ UNCHANGED <<call_fn, call_args>>
  /\ CallFrame

NextSafeDivision == SafeDivide \/ CalculateSharpeRatio

SpecSafeDivision == InitSafeDivision /\ [][NextSafeDivision]_vars

\* The returns have zero sample variance: at least two of them, all equal.
C21_ZeroVolatility(returns) ==
  Len(returns) >= 2 /\ \A i \in DOMAIN returns : returns[i] = returns[1]

\* C21: safe_divide returns `default`, without dividing, whenever the
\* denominator is 0 or NaN, and numerator / denominator otherwise;
\* calculate_sharpe_ratio returns 0, without dividing, whenever the computed
\* volatility is 0.
C21_ZeroDenominatorGivesFallback ==
  /\ (call_fn = "safe_divide" /\ call_pc = "returned") =>
       IF call_args.denominator.nan \/ call_args.denominator.v = 0
       THEN ~call_ret.divided /\ call_ret.value = call_args.default
       ELSE /\ call_ret.divided
            /\ call_ret.value.num = call_args.numerator
            /\ call_ret.value.den = call_args.denominator
  /\ (call_fn = "calculate_sharpe_ratio" /\ call_pc = "returned"
        /\ C21_ZeroVolatility(call_args.returns)) =>
       ~call_ret.divided /\ call_ret.value = 0

\* safe_divide(1, NaN, default=1) has returned the default.
C21_Witness ==
  /\ call_fn = "safe_divide"
  /\ call_pc = "returned"
  /\ call_args.numerator = Operand(FALSE, 1)
  /\ call_args.denominator = Operand(TRUE, 0)
  /\ call_args.default = 1
  /\ call_ret = [divided |-> FALSE, value |-> 1]

\* calculate_sharpe_ratio of three equal returns has returned 0.
C21_SharpeReached ==
  /\ call_fn = "calculate_sharpe_ratio"
  /\ call_pc = "returned"
  /\ call_args.returns = <<1, 1, 1>>
  /\ call_ret = [divided |-> FALSE, value |-> 0]

\* ------------------------------------- the session-scoped processor instance
\* DataProcessor(): the instance kept in st.session_state; `state` stands for
\* whatever fields it has.
NewDataProcessor == [state |-> {}]

\* An engine that remembers the inputs it has processed in the instance and
\* answers a repeated input with nothing new.
ProcessorCall_Memo(instance, raw, macd_min) ==
  [instance |-> [state |-> instance.state \cup {raw}],
   output |-> IF raw \in instance.state
              THEN [raised |-> FALSE, value |-> EmptyDict]
              ELSE process_realtime_data(raw, macd_min)]

\* data_processor.process_realtime_data(raw_data): a function of raw_data alone,
\* which leaves the instance as it was.
ProcessorCall(instance, raw, macd_min) ==
  [instance |-> instance, output |-> process_realtime_data(raw, macd_min)]

\* What the client hands over in a run: one symbol's history.
SessionRawData == [{AllSymbols[1]} -> EngineLens]

InitSession ==
  /\ call_fn = "session"
  /\ call_pc = "initialize_components"
  /\ call_args \in [macd_min : {1, MACDSlow}]
  /\ call_ret = [session_state |-> <<>>, results |-> <<>>]
  /\ CallOthersIdle

\* initialize_components: the processor is constructed only when the session
\* has none.
InitializeComponents ==
  /\ call_fn = "session"
  /\ call_pc = "initialize_components"
  /\ Len(call_ret.results) < MaxRuns
  /\ call_ret' =
       [call_ret EXCEPT !.session_state =
          IF "data_processor" \in DOMAIN call_ret.session_state
          THEN call_ret.session_state
          ELSE DictSet(call_ret.session_state, "data_processor", NewDataProcessor)]
  /\ call_pc' = "load_market_data"
  /\ UNCHANGED <<call_fn, call_args>>
  /\ CallFrame

\* load_market_data: the client's raw data goes through the session's processor;
\* the script then ends and the next run starts.
LoadMarketDataInSession ==
  /\ call_fn = "session"
  /\ call_pc = "load_market_data"
  /\ \E raw \in SessionRawData :
       \E c \in {ProcessorCall(call_ret.session_state["data_processor"], raw,
                               call_args.macd_min)} :
         call_ret' =
           [session_state |-> DictSet(call_ret.session_state, "data_processor",
                                      c.instance),
            results |-> Append(call_ret.results, [raw |-> raw, output |-> c.output])]
  /\ call_pc' = "initialize_components"
  /\ UNCHANGED <<call_fn, call_args>>
  /\ CallFrame

NextSession == InitializeComponents \/ LoadMarketDataInSession

SpecSession == InitSession /\ [][NextSession]_vars

WithKey(d, key, values) == {d} \cup {DictSet(d, key, v) : v \in values}

\* RSI readings around the two thresholds.
SignalRSIs == {0, 29, 30, 31, 50, 69, 70, 71, 100}
MACDs == WithKey(<<>>, "histogram", {0 - 1, 0, 1})
Technicals ==
  UNION {WithKey(t, "macd", MACDs) : t \in WithKey(<<>>, "rsi", SignalRSIs)}
TrendSections == WithKey(<<>>, "short_term_trend", {"bullish", "bearish", "neutral"})

\* One symbol's processed data: None, {}, or a dictionary with or without each
\* key the signal reads.
SignalDataForms ==
  {None, Dict(<<>>)}
  \cup {Dict(d) :
          d \in UNION {WithKey(t, "trend_analysis", TrendSections) :
                         t \in WithKey([current_price |-> 5],
                                       "technical_indicators", Technicals)}}

\* market_data.items(): the first symbol over all forms, with or without a
\* second symbol.
SignalMarketData ==
  {<<d>> : d \in SignalDataForms}
  \cup {<<d, e>> : d \in SignalDataForms, e \in {None, Dict(FullData)}}

\* Scores are counted in halves: 2 is the code's 1, 1 is its 0.5.
RSITerm(rsi) == IF rsi > 70 THEN 0 - 2 ELSE IF rsi < 30 THEN 2 ELSE 0

TrendTerm(short_trend) ==
  IF short_trend = "bullish" THEN 2
  ELSE IF short_trend = "bearish" THEN 0 - 2 ELSE 0

\* A MACD term that stays out of the score on a zero histogram.
MACDTerm_Neutral(macd) ==
  IF Get(macd, "histogram", 0) > 0 THEN 1
  ELSE IF Get(macd, "histogram", 0) < 0 THEN 0 - 1 ELSE 0

\* Lines 338-342.
MACDTerm(macd) == IF Get(macd, "histogram", 0) > 0 THEN 1 ELSE 0 - 1

\* A signal taken from the sign of the score.
SignalType_ZeroThreshold(signal_strength) ==
  IF signal_strength > 0 THEN "BUY"
  ELSE IF signal_strength < 0 THEN "SELL" ELSE "HOLD"

\* Lines 345-348: `> 1` and `< -1`, in halves.
SignalType(signal_strength) ==
  IF signal_strength > 2 THEN "BUY"
  ELSE IF signal_strength < 0 - 2 THEN "SELL" ELSE "HOLD"

Abs(n) == IF n < 0 THEN 0 - n ELSE n

\* Lines 316-357: the entry of one symbol with data.
TradingSignal(data) ==
  LET technical == Get(data, "technical_indicators", <<>>)
      trend == Get(data, "trend_analysis", <<>>)
      rsi == Get(technical, "rsi", 50)
      short_trend == Get(trend, "short_term_trend", "neutral")
      macd == Get(technical, "macd", <<>>)
      signal_strength == RSITerm(rsi) + TrendTerm(short_trend) + MACDTerm(macd)
  IN [signal |-> SignalType(signal_strength),
      strength |-> Frac(Abs(signal_strength), 2),
      rsi |-> rsi,
      trend |-> short_trend,
      macd |-> macd,
      current_price |-> Get(data, "current_price", 0)]

\* The loop over market_data.items(): `if not data: continue`.
analyze_trading_signals(market_data) ==
  LET kept == {i \in DOMAIN market_data : Truthy(market_data[i])}
      index(sym) == CHOOSE i \in kept : AllSymbols[i] = sym
  IN [sym \in {AllSymbols[i] : i \in kept} |->
        TradingSignal(market_data[index(sym)].dict)]

InitSignals ==
  /\ call_fn = "_analyze_trading_signals"
  /\ call_pc = "called"
  /\ call_args \in [market_data : SignalMarketData]
  /\ call_ret = <<>>
  /\ CallOthersIdle

AnalyzeTradingSignals ==
  /\ call_fn = "_analyze_trading_signals"
  /\ call_pc = "called"
  /\ call_ret' = analyze_trading_signals(call_args.market_data)
  /\ call_pc' = "returned"
  /\ UNCHANGED <<call_fn, call_args>>
  /\ CallFrame

NextSignals == AnalyzeTradingSignals

SpecSignals == InitSignals /\ [][NextSignals]_vars

SignalsReturned == call_fn = "_analyze_trading_signals" /\ call_pc = "returned"

\* What the i-th symbol's data says, read off the input.
InputRSI(i) ==
  Get(Get(call_args.market_data[i].dict, "technical_indicators", <<>>), "rsi", 50)
InputTrend(i) ==
  Get(Get(call_args.market_data[i].dict, "trend_analysis", <<>>),
      "short_term_trend", "neutral")
InputHistogram(i) ==
  Get(Get(Get(call_args.market_data[i].dict, "technical_indicators", <<>>),
          "macd", <<>>), "histogram", 0)

\* Twice the net score of the i-th symbol.
C23_NetScore(i) ==
  (IF InputRSI(i) < 30 THEN 2 ELSE IF InputRSI(i) > 70 THEN 0 - 2 ELSE 0)
  + (IF InputTrend(i) = "bullish" THEN 2
     ELSE IF InputTrend(i) = "bearish" THEN 0 - 2 ELSE 0)
  + (IF InputHistogram(i) > 0 THEN 1 ELSE 0 - 1)

\* C23: every symbol with data gets a strength of 0.5, 1.5 or 2.5; its signal is
\* HOLD exactly when the strength is 0.5, BUY exactly when the net score is
\* above 1 and SELL exactly when it is below -1; a symbol with empty data gets
\* no entry.
C23_StrengthAndSignalAgree ==
  SignalsReturned =>
    \A i \in DOMAIN call_args.market_data :
      IF Truthy(call_args.market_data[i])
      THEN /\ AllSymbols[i] \in DOMAIN call_ret
           /\ call_ret[AllSymbols[i]].strength.den = 2
           /\ call_ret[AllSymbols[i]].strength.num \in {1, 3, 5}
           /\ (call_ret[AllSymbols[i]].signal = "HOLD"
                 <=> call_ret[AllSymbols[i]].strength.num = 1)
           /\ (call_ret[AllSymbols[i]].signal = "BUY" <=> C23_NetScore(i) > 2)
           /\ (call_ret[AllSymbols[i]].signal = "SELL" <=> C23_NetScore(i) < 0 - 2)
      ELSE AllSymbols[i] \notin DOMAIN call_ret

\* An oversold, bullish symbol with a positive histogram is a BUY of strength
\* 2.5, next to a symbol without data that has no entry.
C23_Witness ==
  /\ SignalsReturned
  /\ Len(call_args.market_data) = 2
  /\ call_args.market_data[2] = None
  /\ Truthy(call_args.market_data[1])
  /\ InputRSI(1) = 29
  /\ InputTrend(1) = "bullish"
  /\ InputHistogram(1) = 1
  /\ DOMAIN call_ret = {AllSymbols[1]}
  /\ call_ret[AllSymbols[1]].signal = "BUY"
  /\ call_ret[AllSymbols[1]].strength = Frac(5, 2)

\* C24: no BUY for a symbol whose RSI is above 70 or whose short-term trend is
\* bearish, and no SELL for a symbol whose RSI is below 30 or whose short-term
\* trend is bullish, whatever the other indicators are.
C24_NoSignalAgainstIndicator ==
  SignalsReturned =>
    \A i \in DOMAIN call_args.market_data :
      Truthy(call_args.market_data[i]) =>
        /\ (InputRSI(i) > 70 \/ InputTrend(i) = "bearish")
             => call_ret[AllSymbols[i]].signal # "BUY"
        /\ (InputRSI(i) < 30 \/ InputTrend(i) = "bullish")
             => call_ret[AllSymbols[i]].signal # "SELL"

\* An overbought symbol in a bullish trend with a positive histogram is held.
C24_Witness ==
  /\ SignalsReturned
  /\ Truthy(call_args.market_data[1])
  /\ InputRSI(1) = 71
  /\ InputTrend(1) = "bullish"
  /\ InputHistogram(1) = 1
  /\ call_ret[AllSymbols[1]].signal = "HOLD"

\* ------------------------------------------------------ the dashboard's gates
Called(op) == \E k \in DOMAIN trace : IsCall(trace[k], op)

\* C25: generate_trading_signals is called only if enable_signals, the LLM
\* prediction and the ML predictor only if enable_predictions,
\* analyze_sentiment_indicators only if enable_sentiment, analyze_price_patterns
\* only if enable_patterns; with an empty symbol list main() returns at the
\* warning, before any data is loaded and before any analysis.
C25_FeaturesRunOnlyWhenEnabled ==
  pc # "main" =>
    /\ Called("generate_trading_signals") => config.enable_signals
    /\ Called("generate_stock_prediction") => config.enable_predictions
    /\ Called("predict_price_movement") => config.enable_predictions
    /\ Called("analyze_sentiment_indicators") => config.enable_sentiment
    /\ Called("analyze_price_patterns") => config.enable_patterns
    /\ config.symbols = <<>> =>
         /\ pc \in {"check_symbols", "done"}
         /\ \A k \in DOMAIN trace : trace[k].ev = "warning" /\ trace[k].op = "main"

\* A finished run with signals and patterns on, predictions and sentiment off:
\* the first two were called, and the market analysis ran as always.
C25_Witness ==
  /\ pc = "done"
  /\ config.enable_signals /\ config.enable_patterns
  /\ ~config.enable_predictions /\ ~config.enable_sentiment
  /\ Called("generate_market_analysis")
  /\ Called("generate_trading_signals")
  /\ Called("analyze_price_patterns")
  /\ ~Called("predict_price_movement")
  /\ ~Called("analyze_sentiment_indicators")

\* A run that stopped at the empty symbol list.
C25_EmptySymbolsReached ==
  /\ pc = "done"
  /\ config.symbols = <<>>
  /\ trace = <<Event("warning", "main", NoSymbol, 0, "no_symbols")>>

AIOps == GeneratorOps \cup {"predict_price_movement", "analyze_sentiment_indicators"}

\* C26: without an API key, or with empty processed data, render_ai_analysis
\* returns after one warning and calls neither a generator nor an analyzer:
\* no market analysis, no trading signals, no LLM or ML prediction, no
\* sentiment computation.
C26_NoAnalysisWithoutKeyOrData ==
  (~api_key \/ processed_data = <<>>) =>
    /\ \A k \in DOMAIN trace : ~(trace[k].ev = "call" /\ trace[k].op \in AIOps)
    /\ pc = "patterns" =>
         /\ Len(trace) = 1
         /\ trace[1].ev = "warning" /\ trace[1].op = "render_ai_analysis"

\* render_ai_analysis has returned without an API key, every toggle on and a
\* symbol with a full history: only the warning happened.
C26_Witness ==
  /\ pc = "patterns"
  /\ ~api_key
  /\ config.enable_signals /\ config.enable_predictions /\ config.enable_sentiment
  /\ \E sym \in DOMAIN processed_data : MLGate(processed_data[sym])
  /\ trace = <<Event("warning", "render_ai_analysis", NoSymbol, 0, "no_api_key")>>

\* render_ai_analysis has returned on empty data, the API key set.
C26_EmptyDataReached ==
  /\ pc = "patterns"
  /\ api_key
  /\ processed_data = <<>>
  /\ trace = <<Event("warning", "render_ai_analysis", NoSymbol, 0, "no_data")>>

\* ------------------------------------------------------------------ setup.py
\* sys.version_info as <<major, minor>>.
PythonVersions == {<<2, 7>>, <<3, 7>>, <<3, 8>>, <<3, 12>>}

\* What the setup finds on the machine: the interpreter, how each shell command
\* ends, which files exist and what the user answers.
SetupEnvs ==
  [version : PythonVersions,
   git : {"ok", "fails", "not_installed"},
   venv_exists : BOOLEAN, recreate : BOOLEAN, venv_created : BOOLEAN,
   pip_upgraded : BOOLEAN, requirements_exist : BOOLEAN, installed : BOOLEAN,
   env_file : {"exists", "example_only", "neither"},
   tests : {"missing", "pass", "fail"},
   online : BOOLEAN]

\* run_command: with shell=True and check=True every failure of the command,
\* a missing program included, is a CalledProcessError, which is caught here:
\* the stdout or True on success, False on failure, never an exception.
run_command(succeeds, capture_output) ==
  [raised |-> FALSE,
   value |-> IF ~succeeds THEN "False"
             ELSE IF capture_output THEN "stdout" ELSE "True"]

check_python_version(env) ==
  ~(env.version[1] < 3 \/ (env.version[1] = 3 /\ env.version[2] < 8))

\* try: run_command(...); return True / except: return False. The value of
\* run_command is not looked at.
check_git(env) == ~run_command(env.git = "ok", TRUE).raised

\* A step that reports success whatever the venv command did.
create_virtual_environment_IgnoresResult(env) == TRUE

\* Lines 57-77.
create_virtual_environment(env) ==
  IF env.venv_exists /\ ~env.recreate THEN TRUE
  ELSE run_command(env.venv_created, FALSE).value = "True"

\* Lines 79-106.
activate_and_install_requirements(env) ==
  IF run_command(env.pip_upgraded, FALSE).value # "True" THEN FALSE
  ELSE IF env.requirements_exist
       THEN run_command(env.installed, FALSE).value = "True"
       ELSE FALSE

\* Lines 108-133.
setup_environment_file(env) == env.env_file # "neither"

\* Lines 200-221: True on every path.
run_tests(env) ==
  IF env.tests = "missing" THEN TRUE
  ELSE IF run_command(env.tests = "pass", FALSE).value = "True" THEN TRUE
  ELSE TRUE

\* try: urlopen, yfinance / except Exception: return False
check_api_connectivity(env) == env.online

Bool(b) == IF b THEN "True" ELSE "False"

SetupCall(step, fn, ret) == [step |-> step, fn |-> fn, ret |-> ret]

InitSetup ==
  /\ call_fn = "setup.main"
  /\ call_pc = "step1"
  /\ call_args \in SetupEnvs
  /\ call_ret = [calls |-> <<>>, returned |-> "running"]
  /\ CallOthersIdle

\* One step of main(): the calls it makes, then the next step or `return False`.
SetupStep(from, calls, ok, next) ==
  /\ call_fn = "setup.main"
  /\ call_pc = from
  /\ call_ret' = [calls |-> call_ret.calls \o calls,
                  returned |-> IF ~ok THEN "False"
                               ELSE IF next = "returned" THEN "True"
                               ELSE "running"]
  /\ call_pc' = IF ok THEN next ELSE "returned"
  /\ UNCHANGED <<call_fn, call_args>>
  /\ CallFrame

Step1Prerequisites ==
  LET py == check_python_version(call_args)
  IN SetupStep("step1",
               <<SetupCall(1, "check_python_version", Bool(py))>>
               \o (IF py THEN <<SetupCall(1, "check_git", Bool(check_git(call_args)))>>
                   ELSE <<>>),
               py, "step2")

Step2ProjectStructure ==
  SetupStep("step2", <<SetupCall(2, "create_project_structure", "None")>>,
            TRUE, "step3")

Step3VirtualEnvironment ==
  LET ok == create_virtual_environment(call_args)
  IN SetupStep("step3", <<SetupCall(3, "create_virtual_environment", Bool(ok))>>,
               ok, "step4")

Step4Requirements ==
  LET ok == activate_and_install_requirements(call_args)
  IN SetupStep("step4",
               <<SetupCall(4, "activate_and_install_requirements", Bool(ok))>>,
               ok, "step5")

Step5EnvironmentFile ==
  SetupStep("step5",
            <<SetupCall(5, "setup_environment_file",
                        Bool(setup_environment_file(call_args)))>>,
            TRUE, "step6")

Step6Tests ==
  SetupStep("step6", <<SetupCall(6, "run_tests", Bool(run_tests(call_args)))>>,
            TRUE, "step7")

Step7LaunchScripts ==
  SetupStep("step7", <<SetupCall(7, "create_launch_scripts", "None")>>,
            TRUE, "step8")

Step8SampleConfig ==
  SetupStep("step8", <<SetupCall(8, "create_sample_config", "None")>>,
            TRUE, "step9")

\* Step 9, then show_next_steps() and `return True`.
Step9Connectivity ==
  SetupStep("step9",
            <<SetupCall(9, "check_api_connectivity",
                        Bool(check_api_connectivity(call_args))),
              SetupCall(10, "show_next_steps", "None")>>,
            TRUE, "returned")

NextSetup ==
  \/ Step1Prerequisites
  \/ Step2ProjectStructure
  \/ Step3VirtualEnvironment
  \/ Step4Requirements
  \/ Step5EnvironmentFile
  \/ Step6Tests
  \/ Step7LaunchScripts
  \/ Step8SampleConfig
  \/ Step9Connectivity

SpecSetup == InitSetup /\ [][NextSetup]_vars

\* The failures of the three blocking steps, read off the machine.
C27_PythonFails == call_args.version \in {<<2, 7>>, <<3, 7>>}
C27_VenvFails ==
  (~call_args.venv_exists \/ call_args.recreate) /\ ~call_args.venv_created
C27_DepsFail ==
  ~call_args.pip_upgraded \/ ~call_args.requirements_exist \/ ~call_args.installed

\* The step at which main() stops: the first blocking step that fails, or 10
\* (show_next_steps) when none does.
C27_LastStep ==
  IF C27_PythonFails THEN 1
  ELSE IF C27_VenvFails THEN 3
  ELSE IF C27_DepsFail THEN 4 ELSE 10

C27_StepsRun == {call_ret.calls[k].step : k \in DOMAIN call_ret.calls}

\* C27: main() runs steps 1..9 in order; it returns False, running no later
\* step, exactly when the Python check, the venv creation or the dependency
\* installation fails; the git check, the .env setup, the tests and the
\* connectivity check never stop it; with the three blocking steps passed it
\* reaches show_next_steps and returns True.
C27_BlockingStepsOnly ==
  call_fn = "setup.main" =>
    /\ \A j, k \in DOMAIN call_ret.calls :
         j < k => call_ret.calls[j].step <= call_ret.calls[k].step
    /\ \E n \in 0..10 : C27_StepsRun = 1..n
    /\ \A n \in C27_StepsRun : n <= C27_LastStep
    /\ call_pc = "returned" =>
         /\ C27_StepsRun = 1..C27_LastStep
         /\ call_ret.returned = (IF C27_LastStep = 10 THEN "True" ELSE "False")
         /\ call_ret.returned = "False" <=>
              (C27_PythonFails \/ C27_VenvFails \/ C27_DepsFail)

\* A setup in which git is missing, the .env template is missing, the tests
\* fail and the machine is offline has run every step and returned True.
C27_Witness ==
  /\ call_fn = "setup.main"
  /\ call_pc = "returned"
  /\ call_args.git = "not_installed"
  /\ call_args.env_file = "neither"
  /\ call_args.tests = "fail"
  /\ ~call_args.online
  /\ call_ret.returned = "True"
  /\ call_ret.calls[Len(call_ret.calls)].fn = "show_next_steps"
  /\ C27_StepsRun = 1..10

\* A setup stopped at step 3: the venv command failed.
C27_StoppedReached ==
  /\ call_fn = "setup.main"
  /\ call_pc = "returned"
  /\ call_ret.returned = "False"
  /\ C27_StepsRun = 1..3

\* C28: check_git returns True only when `git --version` succeeds, and False
\* when the command fails or git is not installed.
C28_CheckGitReportsAvailability ==
  call_fn = "setup.main" =>
    \A k \in DOMAIN call_ret.calls :
      call_ret.calls[k].fn = "check_git" =>
        (call_ret.calls[k].ret = "True" <=> call_args.git = "ok")

\* ------------------------------------------------- the matches' positions
\* C29: every match lies inside the comparison series,
\* 0 <= start_index <= len(comparison) - W and end_index = start_index + W,
\* and no two matches of one result have the same start_index.
C29_MatchesInsideSeries ==
  fsp_pc = "returned" =>
    /\ \A k \in DOMAIN similarities :
         /\ 0 <= similarities[k].start_index
         /\ similarities[k].start_index <= SeriesLen(comparison_series) - window
         /\ similarities[k].end_index = similarities[k].start_index + window
    /\ \A j, k \in DOMAIN similarities :
         similarities[j].start_index = similarities[k].start_index => j = k

\* A result with two matches, one of them the last window of the comparison
\* series.
C29_Witness ==
  /\ fsp_pc = "returned"
  /\ Len(similarities) >= 2
  /\ \E k \in DOMAIN similarities :
       similarities[k].start_index = SeriesLen(comparison_series) - window

\* ------------------------------------------------------- the maximum drawdown
DrawdownReturned == call_fn = "calculate_max_drawdown" /\ call_pc = "returned"

\* The price at an index label of the series the call was made on.
PriceAt(date) ==
  call_args.heap[1].values[date - call_args.heap[1].start + 1]

\* The greatest price up to and including an index label.
RunningMaxAt(date) ==
  SeqMax(SubSeq(call_args.heap[1].values, 1, date - call_args.heap[1].start + 1))

\* C30: on a non-empty series of strictly positive prices, -1 < max_drawdown
\* <= 0, max_drawdown_percent is 100 times max_drawdown, peak_date is not
\* later than trough_date, and the price at peak_date is the running maximum
\* in force at trough_date.
C30_DrawdownWellFormed ==
  DrawdownReturned =>
    /\ call_ret.value.max_drawdown.den > 0
    /\ call_ret.value.max_drawdown.num <= 0
    /\ call_ret.value.max_drawdown.num > 0 - call_ret.value.max_drawdown.den
    /\ call_ret.value.max_drawdown_percent.num * call_ret.value.max_drawdown.den
         = 100 * call_ret.value.max_drawdown.num
               * call_ret.value.max_drawdown_percent.den
    /\ call_ret.value.peak_date <= call_ret.value.trough_date
    /\ PriceAt(call_ret.value.peak_date) = RunningMaxAt(call_ret.value.trough_date)

\* The prices 2, 3, 1: the peak is the second price, the trough the third, the
\* drawdown -2/3.
C30_Witness ==
  /\ DrawdownReturned
  /\ call_args.heap[1].values = <<2, 3, 1>>
  /\ call_ret.value.max_drawdown = Frac(0 - 2, 3)
  /\ call_ret.value.peak_date = call_args.heap[1].start + 1
  /\ call_ret.value.trough_date = call_args.heap[1].start + 2

====
